---------------------------- MODULE Spec2Model ----------------------------
(***************************************************************************)
(* A model of the KION RAG recommendation service (jeromwolf/kion-rag):    *)
(* the conversation session store, the chat handler's use of it, the BM25  *)
(* index, the policy tables, the recommendation cache and the follow-up    *)
(* condition merge.                                                        *)
(***************************************************************************)
EXTENDS Integers, Sequences, FiniteSets, TLC

(***************************************************************************)
(* Bounds of the model.                                                    *)
(***************************************************************************)
\* session ids that uuid4 can still hand out / that a client can send
MaxIds == 3
\* the clock stops after this many ticks
MaxTime == 2
\* add_turn calls that store a turn
MaxTurns == 2
\* ConversationManager(max_sessions=..., session_ttl=...): the constructor's
\* parameters, scaled down from their defaults 1000 and 3600
max_sessions == 2
session_ttl == 1

\* /chat requests made in the model
NumRequests == 3

\* initialize / add_document calls made in the model
MaxWrites == 2

\* edits of the policy files made in the model
MaxEdits == 2
\* PolicySettings._cache_ttl, scaled down from 300
policy_cache_ttl == 1

\* calls of the generative model made in the model
MaxCalls == 2
\* llm.CACHE_TTL, scaled down from 300
CACHE_TTL == 2

\* /chat requests of the one session of SpecFollowup
MaxConv == 3

\* Python's None, for an Optional id or an Optional temperature bound
None == -1

VARIABLES
    now,        \* time.time(), in ticks
    sessions,   \* ConversationManager.sessions: its keys, in OrderedDict order
    heap,       \* the ConversationSession objects, by session_id
    nextId,     \* the next id uuid4 hands out
    ret,        \* the last call on the manager and what it returned
    recency,    \* history: live session ids, least recently created-or-looked-up first
    turnsAdded  \* number of turns stored so far; the next turn's query is numbered by it

sessVars == <<now, sessions, heap, nextId, ret, recency, turnsAdded>>

VARIABLES
    reqs,       \* the /chat requests: where each handler is and what it holds
    arrived     \* history: the requests in the order their handlers started

chatVars == <<reqs, arrived>>

VARIABLES
    bm25,           \* HybridSearcher.bm25: the scorer and the corpus it was built over
    doc_ids,        \* HybridSearcher.doc_ids
    doc_metadata,   \* HybridSearcher.doc_metadata
    tokenized_docs, \* HybridSearcher.tokenized_docs (and .documents, filled alike)
    initialized,    \* HybridSearcher._initialized
    writer,         \* the worker running initialize or add_document
    reader,         \* the worker running search_bm25
    installed       \* history: the corpora of the indexes completely built so far

idxVars == <<bm25, doc_ids, doc_metadata, tokenized_docs, initialized,
             writer, reader, installed>>

VARIABLES
    inst_file,          \* data/policy/institution_priority.json: its "institutions"
    inst_data,          \* InstitutionPriority._data
    settings_file,      \* data/policy/policy_settings.json: its "policies"
    settings_data,      \* PolicySettings._data
    settings_last_load, \* PolicySettings._last_load
    loader,             \* the worker running PolicyManager.reload_all
    observed,           \* what the last read of a policy table returned
    complete            \* history: the tables as they stood after each finished load

VARIABLES
    cache,              \* llm._cache: key -> (result, timestamp)
    call,               \* the last call of generate_recommendation and what it met
    llm_calls           \* calls of ollama.chat made so far

llmVars == <<cache, call, llm_calls>>

VARIABLES
    conv,               \* the turns of one session, as /chat stores them
    merge_in,           \* the arguments of one merge_with_previous_conditions call
    merge_out           \* what the call returned

txtVars == <<conv, merge_in, merge_out>>

VARIABLES
    flt_in,             \* the arguments of one apply_hard_filters call
    flt_out,            \* what the call returned
    policy_manager,     \* policy._policy_manager: "none" until a PolicyManager is built
    file_state,         \* whether each policy file is readable JSON, missing or malformed
    rerank              \* the last call of rerank_with_filters and what it returned

VARIABLES
    pipe,               \* one /chat request after retrieval and the response it got
    hyb,                \* one call of HybridSearcher.hybrid_search and what it returned
    collection,         \* RAGPipeline.collection: the documents ChromaDB holds
    hybrid_initialized, \* RAGPipeline._hybrid_initialized
    reloaded,           \* history: POST /equipment/reload has been served
    lexical             \* the last lexical search of RAGPipeline.hybrid_search

fltVars == <<flt_in, flt_out>>
appVars == <<pipe, hyb, collection, hybrid_initialized, reloaded, lexical>>
rnkVars == <<policy_manager, file_state, rerank>>
polVars == <<inst_file, inst_data, settings_file, settings_data, settings_last_load,
             loader, observed, complete>>
vars == <<sessVars, chatVars, idxVars, polVars, llmVars, txtVars, fltVars, rnkVars, appVars>>

Range(s) == {s[i] : i \in 1..Len(s)}
Remove(s, x) == SelectSeq(s, LAMBDA y : y # x)
Restrict(s, S) == SelectSeq(s, LAMBDA y : y \in S)
Pos(s, x) == CHOOSE i \in 1..Len(s) : s[i] = x
IsPrefix(s, t) == Len(s) <= Len(t) /\ \A i \in 1..Len(s) : s[i] = t[i]

IdPool == 1..MaxIds

(***************************************************************************)
(* ConversationManager (conversation.py).  A manager state M is            *)
(* [sessions, heap]; every operator returns the state after the call.      *)
(***************************************************************************)
NewSession(t) == [turns |-> <<>>, last_accessed |-> t]

\* the TTL test of get_session and _cleanup_old_sessions
Expired(session, t) == t - session.last_accessed > session_ttl

RECURSIVE PopOldest(_)
PopOldest(keys) ==
    IF Len(keys) > max_sessions THEN PopOldest(Tail(keys)) ELSE keys

cleanup_old_sessions(M, t) ==
    LET kept == SelectSeq(M.sessions, LAMBDA sid : ~Expired(M.heap[sid], t))
    IN  [M EXCEPT !.sessions = PopOldest(kept)]

create_session(M, id, t) ==
    LET M1 == [sessions |-> Append(M.sessions, id),
               heap |-> [s \in DOMAIN M.heap \cup {id} |->
                            IF s = id THEN NewSession(t) ELSE M.heap[s]]]
    IN  cleanup_old_sessions(M1, t)

get_session_keep_expired(M, session_id, t) ==
    IF session_id \notin Range(M.sessions)
    THEN [M |-> M, session |-> None]
    ELSE IF Expired(M.heap[session_id], t)
         THEN [M |-> M, session |-> None]
         ELSE [M |-> [sessions |-> Append(Remove(M.sessions, session_id), session_id),
                      heap |-> [M.heap EXCEPT ![session_id].last_accessed = t]],
               session |-> session_id]

get_session_no_move(M, session_id, t) ==
    IF session_id \notin Range(M.sessions)
    THEN [M |-> M, session |-> None]
    ELSE IF Expired(M.heap[session_id], t)
         THEN [M |-> [M EXCEPT !.sessions = Remove(M.sessions, session_id)],
               session |-> None]
         ELSE [M |-> [M EXCEPT !.heap[session_id].last_accessed = t],
               session |-> session_id]

get_session(M, session_id, t) ==
    IF session_id \notin Range(M.sessions)
    THEN [M |-> M, session |-> None]
    ELSE IF Expired(M.heap[session_id], t)
         THEN [M |-> [M EXCEPT !.sessions = Remove(M.sessions, session_id)],
               session |-> None]
         ELSE [M |-> [sessions |-> Append(Remove(M.sessions, session_id), session_id),
                      heap |-> [M.heap EXCEPT ![session_id].last_accessed = t]],
               session |-> session_id]

\* whether get_or_create_session goes on to create_session
Creates(M, session_id, t) ==
    session_id = None \/ get_session(M, session_id, t).session = None

get_or_create_session_resurrect(M, session_id, id, t) ==
    IF session_id # None /\ session_id \in Range(M.sessions)
    THEN [M |-> M, session |-> session_id, raised |-> FALSE]
    ELSE LET M2 == create_session(M, id, t)
         IN  [M |-> M2, session |-> id, raised |-> id \notin Range(M2.sessions)]

get_or_create_session(M, session_id, id, t) ==
    LET g == IF session_id # None THEN get_session(M, session_id, t)
             ELSE [M |-> M, session |-> None]
    IN  IF g.session # None
        THEN [M |-> g.M, session |-> g.session, raised |-> FALSE]
        ELSE LET M2 == create_session(g.M, id, t)
             IN  \* self.sessions[new_id] raises KeyError if the new session is gone
                 IF id \in Range(M2.sessions)
                 THEN [M |-> M2, session |-> id, raised |-> FALSE]
                 ELSE [M |-> M2, session |-> None, raised |-> TRUE]

session_add_turn_front(session, turn, t) ==
    [turns |-> <<turn>> \o session.turns, last_accessed |-> t]

\* ConversationSession.add_turn
session_add_turn(session, turn, t) ==
    [turns |-> Append(session.turns, turn), last_accessed |-> t]

add_turn(M, session_id, turn, t) ==
    LET g == get_session(M, session_id, t)
    IN  IF g.session # None
        THEN [g.M EXCEPT !.heap[session_id] = session_add_turn(@, turn, t)]
        ELSE g.M

(***************************************************************************)
(* The manager's calls as actions.                                         *)
(***************************************************************************)
Mgr == [sessions |-> sessions, heap |-> heap]

\* a session object deleted from the map and held by no request is freed
Collect(M, held) ==
    [s \in (Range(M.sessions) \cup held) \cap DOMAIN M.heap |-> M.heap[s]]

\* history: sid was created or looked up; only live sessions are kept
Touch(rec, sid, live) == Restrict(Append(Remove(rec, sid), sid), live)

\* history: what the map held for sid when the call was made
Was(sid) ==
    IF sid \notin Range(sessions) THEN "absent"
    ELSE IF Expired(heap[sid], now) THEN "expired" ELSE "live"

InitSess ==
    /\ now = 0
    /\ sessions = <<>>
    /\ heap = <<>>
    /\ nextId = 1
    /\ ret = [op |-> "init", sid |-> None, res |-> None, raised |-> FALSE,
              was |-> "absent"]
    /\ recency = <<>>
    /\ turnsAdded = 0

Tick ==
    /\ now < MaxTime
    /\ now' = now + 1
    /\ UNCHANGED <<sessions, heap, nextId, ret, recency, turnsAdded>>

CreateSession ==
    /\ nextId <= MaxIds
    /\ LET M2 == create_session(Mgr, nextId, now)
       IN  /\ sessions' = M2.sessions
           /\ heap' = Collect(M2, {})
           /\ recency' = Touch(recency, nextId, Range(M2.sessions))
           /\ ret' = [op |-> "create_session", sid |-> None, res |-> nextId,
                      raised |-> FALSE, was |-> "absent"]
    /\ nextId' = nextId + 1
    /\ UNCHANGED <<now, turnsAdded>>

GetSession(sid) ==
    /\ LET g == get_session(Mgr, sid, now)
       IN  /\ sessions' = g.M.sessions
           /\ heap' = Collect(g.M, {})
           /\ recency' = Touch(recency, sid, Range(g.M.sessions))
           /\ ret' = [op |-> "get_session", sid |-> sid, res |-> g.session,
                      raised |-> FALSE, was |-> Was(sid)]
    /\ UNCHANGED <<now, nextId, turnsAdded>>

GetOrCreateSession(sid) ==
    /\ Creates(Mgr, sid, now) => nextId <= MaxIds
    /\ LET g == get_or_create_session(Mgr, sid, nextId, now)
           made == Creates(Mgr, sid, now)
           used == IF made THEN nextId ELSE sid
       IN  /\ sessions' = g.M.sessions
           /\ heap' = Collect(g.M, {})
           /\ recency' = Touch(Remove(recency, sid), used, Range(g.M.sessions))
           /\ ret' = [op |-> "get_or_create_session", sid |-> sid, res |-> g.session,
                      raised |-> g.raised, was |-> Was(sid)]
           /\ nextId' = IF made THEN nextId + 1 ELSE nextId
    /\ UNCHANGED <<now, turnsAdded>>

AddTurn(sid) ==
    /\ turnsAdded < MaxTurns
    /\ LET q == turnsAdded + 1
           M2 == add_turn(Mgr, sid, q, now)
       IN  /\ sessions' = M2.sessions
           /\ heap' = Collect(M2, {})
           /\ recency' = Touch(recency, sid, Range(M2.sessions))
           /\ ret' = [op |-> "add_turn", sid |-> sid, res |-> None,
                      raised |-> FALSE, was |-> Was(sid)]
           /\ turnsAdded' = IF get_session(Mgr, sid, now).session # None
                            THEN turnsAdded + 1 ELSE turnsAdded
    /\ UNCHANGED <<now, nextId>>

(***************************************************************************)
(* The /chat handler (main.py).  Each request is handled by a worker of    *)
(* its own; a handler is suspended at its calls to the retriever and to    *)
(* the generative model, and other handlers run meanwhile.  The query of   *)
(* request r is r, so that turns tell which request stored them.           *)
(***************************************************************************)
RequestIds == 1..NumRequests

InitChat ==
    /\ reqs = [r \in RequestIds |-> [pc |-> "new", sid |-> None, turn_count |-> None]]
    /\ arrived = <<>>

\* the session objects that running handlers hold in their local `session`
Held(rq) == {rq[r].sid : r \in {x \in RequestIds : rq[x].pc \in {"search", "llm"}}}

\* lines 107-168: the session is looked up or created, the query is parsed,
\* and the handler waits for the retriever
ChatBegin(r, session_id) ==
    /\ reqs[r].pc = "new"
    /\ Creates(Mgr, session_id, now) => nextId <= MaxIds
    /\ LET g == get_or_create_session(Mgr, session_id, nextId, now)
           made == Creates(Mgr, session_id, now)
       IN  /\ ~g.raised
           /\ reqs' = [reqs EXCEPT ![r] = [pc |-> "search", sid |-> g.session,
                                           turn_count |-> None]]
           /\ sessions' = g.M.sessions
           /\ heap' = Collect(g.M, Held(reqs'))
           /\ recency' = Touch(Remove(recency, session_id), g.session,
                               Range(g.M.sessions))
           /\ ret' = [op |-> "get_or_create_session", sid |-> session_id,
                      res |-> g.session, raised |-> FALSE, was |-> Was(session_id)]
           /\ nextId' = IF made THEN nextId + 1 ELSE nextId
    /\ arrived' = Append(arrived, r)
    /\ UNCHANGED <<now, turnsAdded>>

\* lines 168-198: the retriever answers; with no candidate the handler
\* returns a response without session id (lines 176-182), otherwise it
\* filters and waits for the generative model
ChatSearch(r, found) ==
    /\ reqs[r].pc = "search"
    /\ reqs' = [reqs EXCEPT ![r].pc = IF found THEN "llm" ELSE "empty"]
    /\ heap' = Collect(Mgr, Held(reqs'))
    /\ UNCHANGED <<now, sessions, nextId, ret, recency, turnsAdded, arrived>>

\* lines 200-266: the generative model answers, the turn is stored and the
\* response is built
ChatFinish(r) ==
    /\ reqs[r].pc = "llm"
    /\ LET sid == reqs[r].sid
           stored == get_session(Mgr, sid, now).session # None
           M2 == add_turn(Mgr, sid, r, now)
       IN  /\ reqs' = [reqs EXCEPT ![r] = [pc |-> "done", sid |-> sid,
                                           turn_count |-> Len(M2.heap[sid].turns)]]
           /\ sessions' = M2.sessions
           /\ heap' = Collect(M2, Held(reqs'))
           /\ recency' = Touch(recency, sid, Range(M2.sessions))
           /\ ret' = [op |-> "add_turn", sid |-> sid, res |-> None,
                      raised |-> FALSE, was |-> Was(sid)]
           /\ turnsAdded' = IF stored THEN turnsAdded + 1 ELSE turnsAdded
    /\ UNCHANGED <<now, nextId, arrived>>

(***************************************************************************)
(* HybridSearcher (hybrid_search.py).  A document is [id, text, metadata]; *)
(* its text is the set of its tokens.  The BM25 score of a document is     *)
(* taken to be positive exactly when it holds the query's token, and all   *)
(* positive scores to be equal (so the normalised score is 1).             *)
(***************************************************************************)
Doc(id, text, metadata) == [id |-> id, text |-> text, metadata |-> metadata]

CorpusA == << Doc("e1", {"rta"}, "a1"), Doc("e2", {"cvd"}, "a2") >>
CorpusB == << Doc("e2", {"rta", "cvd"}, "b2"), Doc("e3", {"cvd"}, "b3"),
              Doc("e1", {"sem"}, "b1") >>
Corpora == {CorpusA, CorpusB}
ExtraDoc == Doc("e4", {"rta"}, "x4")
QueryTokens == {"rta", "cvd"}
TopKs == {1, 20}

NoBm25 == [built |-> FALSE, corpus |-> <<>>]
\* BM25Okapi(self.tokenized_docs)
BM25Okapi(tokenized) == [built |-> TRUE, corpus |-> tokenized]
\* bm25.get_scores(query_tokens): one score per document of the scorer's corpus
get_scores(scorer, token) ==
    [i \in 1..Len(scorer.corpus) |-> IF token \in scorer.corpus[i] THEN 1 ELSE 0]

Min(a, b) == IF a < b THEN a ELSE b
\* list(zip(self.doc_ids, scores))
Zip(ids, scores) ==
    [i \in 1..Min(Len(ids), Len(scores)) |-> [id |-> ids[i], score |-> scores[i]]]

\* scored_docs.sort(key=score, reverse=True): stable
RECURSIVE InsertDesc(_, _)
InsertDesc(sorted, x) ==
    IF sorted = <<>> THEN <<x>>
    ELSE IF Head(sorted).score >= x.score
         THEN <<Head(sorted)>> \o InsertDesc(Tail(sorted), x)
         ELSE <<x>> \o sorted
RECURSIVE SortDesc(_)
SortDesc(seq) ==
    IF seq = <<>> THEN <<>>
    ELSE InsertDesc(SortDesc(SubSeq(seq, 1, Len(seq) - 1)), seq[Len(seq)])

\* max(scores) if scores.any() else 1
MaxScore(scores) ==
    IF \E i \in 1..Len(scores) : scores[i] # 0
    THEN CHOOSE m \in Range(scores) : \A x \in Range(scores) : x <= m
    ELSE 1

\* self.doc_metadata.get(doc_id, {})
MetadataOf(meta, id) == IF id \in DOMAIN meta THEN meta[id] ELSE "{}"

\* lines 109-119: the first top_k of the sorted pairs, zero scores left out
Results(scored_docs, top_k, meta, max_score) ==
    LET top == SubSeq(scored_docs, 1, Min(top_k, Len(scored_docs)))
        pos == SelectSeq(top, LAMBDA d : d.score > 0)
    IN  [i \in 1..Len(pos) |->
            [id |-> pos[i].id, bm25_score |-> pos[i].score \div max_score,
             metadata |-> MetadataOf(meta, pos[i].id)]]

\* the index that initialize(documents) leaves when nothing interferes
IdsOf(documents) == [i \in 1..Len(documents) |-> documents[i].id]
TokensOf(documents) == [i \in 1..Len(documents) |-> documents[i].text]
MetaOf(documents) ==
    [id \in Range(IdsOf(documents)) |->
        LET last == CHOOSE i \in 1..Len(documents) :
                        /\ documents[i].id = id
                        /\ \A j \in (i+1)..Len(documents) : documents[j].id # id
        IN  documents[last].metadata]

\* search_bm25 run on its own against the complete index of a corpus
SearchOf(documents, token, top_k) ==
    IF documents = <<>> THEN <<>>
    ELSE LET scores == get_scores(BM25Okapi(TokensOf(documents)), token)
         IN  Results(SortDesc(Zip(IdsOf(documents), scores)), top_k, MetaOf(documents),
                     MaxScore(scores))

InitIndex ==
    /\ bm25 = NoBm25
    /\ doc_ids = <<>>
    /\ doc_metadata = <<>>
    /\ tokenized_docs = <<>>
    /\ initialized = FALSE
    /\ writer = [pc |-> "idle", documents |-> <<>>, i |-> 0, writes |-> 0]
    /\ reader = [pc |-> "idle", token |-> "", top_k |-> 0, scores |-> <<>>,
                 scored_docs |-> <<>>, result |-> <<>>]
    /\ installed = {<<>>}

\* initialize, lines 34-37: the lists are emptied in place
InitializeReset(documents) ==
    /\ writer.pc = "idle" /\ writer.writes < MaxWrites
    /\ writer' = [pc |-> "fill", documents |-> documents, i |-> 1,
                  writes |-> writer.writes + 1]
    /\ doc_ids' = <<>>
    /\ doc_metadata' = <<>>
    /\ tokenized_docs' = <<>>
    /\ UNCHANGED <<bm25, initialized, reader, installed>>

\* initialize, lines 39-50: one document is appended
InitializeAppend ==
    /\ writer.pc = "fill" /\ writer.i <= Len(writer.documents)
    /\ LET doc == writer.documents[writer.i]
       IN  /\ doc_ids' = Append(doc_ids, doc.id)
           /\ doc_metadata' = [id \in DOMAIN doc_metadata \cup {doc.id} |->
                                  IF id = doc.id THEN doc.metadata ELSE doc_metadata[id]]
           /\ tokenized_docs' = Append(tokenized_docs, doc.text)
    /\ writer' = [writer EXCEPT !.i = @ + 1]
    /\ UNCHANGED <<bm25, initialized, reader, installed>>

\* initialize, lines 52-56: the scorer is built and the index marked ready
InitializeBuild ==
    /\ writer.pc = "fill" /\ writer.i > Len(writer.documents)
    /\ bm25' = IF tokenized_docs # <<>> THEN BM25Okapi(tokenized_docs) ELSE bm25
    /\ initialized' = TRUE
    /\ writer' = [writer EXCEPT !.pc = "idle", !.documents = <<>>, !.i = 0]
    /\ installed' = installed \cup {writer.documents}
    /\ UNCHANGED <<doc_ids, doc_metadata, tokenized_docs, reader>>

\* the corpus whose index is complete when no write is under way
CurrentCorpus ==
    [i \in 1..Len(doc_ids) |->
        Doc(doc_ids[i], tokenized_docs[i], MetadataOf(doc_metadata, doc_ids[i]))]

\* add_document, lines 199-202: the document is appended to the lists
AddDocumentAppend ==
    /\ writer.pc = "idle" /\ writer.writes < MaxWrites
    /\ initialized
    /\ ExtraDoc.id \notin Range(doc_ids)
    /\ writer' = [pc |-> "rebuild", documents |-> Append(CurrentCorpus, ExtraDoc),
                  i |-> 0, writes |-> writer.writes + 1]
    /\ doc_ids' = Append(doc_ids, ExtraDoc.id)
    /\ doc_metadata' = [id \in DOMAIN doc_metadata \cup {ExtraDoc.id} |->
                           IF id = ExtraDoc.id THEN ExtraDoc.metadata ELSE doc_metadata[id]]
    /\ tokenized_docs' = Append(tokenized_docs, ExtraDoc.text)
    /\ UNCHANGED <<bm25, initialized, reader, installed>>

\* add_document, lines 204-206: the scorer is rebuilt
AddDocumentRebuild ==
    /\ writer.pc = "rebuild"
    /\ bm25' = IF tokenized_docs # <<>> THEN BM25Okapi(tokenized_docs) ELSE bm25
    /\ writer' = [writer EXCEPT !.pc = "idle", !.documents = <<>>]
    /\ installed' = installed \cup {writer.documents}
    /\ UNCHANGED <<doc_ids, doc_metadata, tokenized_docs, initialized, reader>>

\* search_bm25, lines 94-102: the guard, then the scores of the current scorer
SearchScore(token, top_k) ==
    /\ reader.pc \in {"idle", "done"}
    /\ IF ~initialized \/ ~bm25.built
       THEN reader' = [pc |-> "done", token |-> token, top_k |-> top_k,
                       scores |-> <<>>, scored_docs |-> <<>>, result |-> <<>>]
       ELSE reader' = [pc |-> "zip", token |-> token, top_k |-> top_k,
                       scores |-> get_scores(bm25, token),
                       scored_docs |-> <<>>, result |-> <<>>]
    /\ UNCHANGED <<bm25, doc_ids, doc_metadata, tokenized_docs, initialized,
                   writer, installed>>

\* search_bm25, lines 105-106: the scores are paired with the current doc_ids
SearchZip ==
    /\ reader.pc = "zip"
    /\ reader' = [reader EXCEPT !.pc = "collect",
                                !.scored_docs = SortDesc(Zip(doc_ids, reader.scores))]
    /\ UNCHANGED <<bm25, doc_ids, doc_metadata, tokenized_docs, initialized,
                   writer, installed>>

\* search_bm25, lines 109-121: the results, with the current metadata
SearchCollect ==
    /\ reader.pc = "collect"
    /\ reader' = [reader EXCEPT !.pc = "done", !.scores = <<>>, !.scored_docs = <<>>,
                                !.result = Results(reader.scored_docs, reader.top_k,
                                                   doc_metadata,
                                                   MaxScore(reader.scores))]
    /\ UNCHANGED <<bm25, doc_ids, doc_metadata, tokenized_docs, initialized,
                   writer, installed>>

(***************************************************************************)
(* The policy tables (policy.py).  A file is the list of its entries.      *)
(***************************************************************************)
Inst(id, priority, is_active) == [id |-> id, priority |-> priority, is_active |-> is_active]
Policy(key, value, type) == [key |-> key, value |-> value, type |-> type]

InstFile1 == << Inst("KION", 1, TRUE), Inst("NNFC", 2, TRUE) >>
InstFile2 == << Inst("KION", 1, TRUE), Inst("KANC", 2, FALSE), Inst("NNFC", 3, TRUE) >>
InstFiles == {InstFile1, InstFile2}

SettingsFile1 == << Policy("max_recommendations", "3", "integer"),
                    Policy("maintenance_exclude", "true", "boolean") >>
SettingsFile2 == << Policy("max_recommendations", "5", "integer"),
                    Policy("min_rag_score", "0", "float") >>
SettingsFiles == {SettingsFile1, SettingsFile2}

\* self._data[key] = entry
Put(table, key, entry) ==
    [k \in DOMAIN table \cup {key} |-> IF k = key THEN entry ELSE table[k]]

\* del table[key]
Del(table, key) == [k \in DOMAIN table \ {key} |-> table[k]]

\* InstitutionPriority._load, one pass of its loop: inactive entries are skipped
inst_put(table, inst) ==
    IF inst.is_active THEN Put(table, inst.id, inst) ELSE table

\* the loop of a _load run to its end on `table`
RECURSIVE inst_load(_, _)
inst_load(table, entries) ==
    IF entries = <<>> THEN table
    ELSE inst_load(inst_put(table, Head(entries)), Tail(entries))

RECURSIVE settings_load(_, _)
settings_load(table, entries) ==
    IF entries = <<>> THEN table
    ELSE settings_load(Put(table, Head(entries).key, Head(entries)), Tail(entries))

InitPolicy ==
    /\ inst_file = InstFile1
    /\ inst_data = inst_load(<<>>, InstFile1)
    /\ settings_file = SettingsFile1
    /\ settings_data = settings_load(<<>>, SettingsFile1)
    /\ settings_last_load = 0
    /\ loader = [pc |-> "idle", entries |-> <<>>, edits |-> 0]
    /\ observed = [table |-> "none", data |-> <<>>, reloaded |-> FALSE,
                   file |-> <<>>, during |-> "idle"]
    /\ complete = [institution |-> {inst_load(<<>>, InstFile1)},
                   settings |-> {settings_load(<<>>, SettingsFile1)}]

\* an administrator rewrites a policy file
EditInstFile(f) ==
    /\ loader.edits < MaxEdits
    /\ f # inst_file
    /\ inst_file' = f
    /\ loader' = [loader EXCEPT !.edits = @ + 1]
    /\ UNCHANGED <<inst_data, settings_file, settings_data, settings_last_load,
                   observed, complete>>

EditSettingsFile(f) ==
    /\ loader.edits < MaxEdits
    /\ f # settings_file
    /\ settings_file' = f
    /\ loader' = [loader EXCEPT !.edits = @ + 1]
    /\ UNCHANGED <<inst_file, inst_data, settings_data, settings_last_load,
                   observed, complete>>

\* InstitutionPriority.reload, lines 36 and 26-29: the table is emptied and
\* the file is read
InstReloadClear ==
    /\ loader.pc = "idle"
    /\ inst_data' = <<>>
    /\ loader' = [loader EXCEPT !.pc = "inst_fill", !.entries = inst_file]
    /\ UNCHANGED <<inst_file, settings_file, settings_data, settings_last_load,
                   observed, complete>>

\* InstitutionPriority._load, lines 30-32: one entry is put into the table
InstReloadPut ==
    /\ loader.pc = "inst_fill" /\ loader.entries # <<>>
    /\ inst_data' = inst_put(inst_data, Head(loader.entries))
    /\ loader' = [loader EXCEPT !.entries = Tail(@)]
    /\ UNCHANGED <<inst_file, settings_file, settings_data, settings_last_load,
                   observed, complete>>

\* PolicySettings.reload, lines 111 and 96-99, once the institutions are loaded
SettingsReloadClear ==
    /\ loader.pc = "inst_fill" /\ loader.entries = <<>>
    /\ settings_data' = <<>>
    /\ loader' = [loader EXCEPT !.pc = "settings_fill", !.entries = settings_file]
    /\ complete' = [complete EXCEPT !.institution = @ \cup {inst_data}]
    /\ UNCHANGED <<inst_file, inst_data, settings_file, settings_last_load, observed>>

\* PolicySettings._load, lines 100-101
SettingsReloadPut ==
    /\ loader.pc = "settings_fill" /\ loader.entries # <<>>
    /\ settings_data' = Put(settings_data, Head(loader.entries).key, Head(loader.entries))
    /\ loader' = [loader EXCEPT !.entries = Tail(@)]
    /\ UNCHANGED <<inst_file, inst_data, settings_file, settings_last_load,
                   observed, complete>>

\* PolicySettings._load, line 102
SettingsReloadDone ==
    /\ loader.pc = "settings_fill" /\ loader.entries = <<>>
    /\ settings_last_load' = now
    /\ loader' = [loader EXCEPT !.pc = "idle"]
    /\ complete' = [complete EXCEPT !.settings = @ \cup {settings_data}]
    /\ UNCHANGED <<inst_file, inst_data, settings_file, settings_data, observed>>

\* InstitutionPriority.get_all
ReadInstitutions ==
    /\ observed' = [table |-> "institution", data |-> inst_data, reloaded |-> FALSE,
                    file |-> inst_file, during |-> loader.pc]
    /\ UNCHANGED <<inst_file, inst_data, settings_file, settings_data,
                   settings_last_load, loader, complete>>

\* PolicySettings._refresh_if_needed: _load on the table as it is, when the TTL is over
refresh_if_needed(table, last_load, file, t) ==
    IF t - last_load > policy_cache_ttl
    THEN [data |-> settings_load(table, file), last_load |-> t, loaded |-> TRUE]
    ELSE [data |-> table, last_load |-> last_load, loaded |-> FALSE]

\* PolicySettings.get_all
ReadSettings ==
    LET r == refresh_if_needed(settings_data, settings_last_load, settings_file, now)
    IN  /\ settings_data' = r.data
        /\ settings_last_load' = r.last_load
        /\ observed' = [table |-> "settings", data |-> r.data, reloaded |-> r.loaded,
                        file |-> settings_file, during |-> loader.pc]
        /\ complete' = IF r.loaded /\ loader.pc # "settings_fill"
                       THEN [complete EXCEPT !.settings = @ \cup {r.data}]
                       ELSE complete
        /\ UNCHANGED <<inst_file, inst_data, settings_file, loader>>

(***************************************************************************)
(* The recommendation cache (llm.py).  A result is the dict the function   *)
(* returns: the keys it holds and the values of the two keys the callers   *)
(* read; none marks Python's None.                                         *)
(***************************************************************************)
Result(keys, recommendations, explanation) ==
    [none |-> FALSE, keys |-> keys, recommendations |-> recommendations,
     explanation |-> explanation]
NoneResult == [none |-> TRUE, keys |-> {}, recommendations |-> <<>>, explanation |-> ""]

\* bool(result): None and the empty dict are false
Truthy(result) == ~result.none /\ result.keys # {}

EquipmentIds == <<"e1", "e2">>
Queries == {"rta", "cvd"}
EquipmentLists == { <<>>, <<"e1">>, <<"e1", "e2">>, <<"e2", "e1">> }
\* what ollama.chat does: it raises, or its content has no JSON object, or the
\* object is empty, or the object recommends the first candidate
Replies == {"raises", "text", "empty_object", "object"}

RECURSIVE InsertSorted(_, _)
InsertSorted(x, seq) ==
    IF seq = <<>> THEN <<x>>
    ELSE IF Pos(EquipmentIds, x) <= Pos(EquipmentIds, Head(seq)) THEN <<x>> \o seq
    ELSE <<Head(seq)>> \o InsertSorted(x, Tail(seq))

RECURSIVE sorted(_)
sorted(seq) == IF seq = <<>> THEN <<>> ELSE InsertSorted(Head(seq), sorted(Tail(seq)))

\* the digest of "query|id|id..." stands for the string itself
get_cache_key(query, eq_ids) == [query |-> query, eq_ids |-> sorted(eq_ids)]

\* _get_from_cache: the entry's result while it is younger than CACHE_TTL;
\* an older entry is deleted and None is returned
get_from_cache(c, key, t) ==
    IF key \in DOMAIN c
    THEN IF t - c[key].ts < CACHE_TTL
         THEN [cache |-> c, result |-> c[key].result]
         ELSE [cache |-> Del(c, key), result |-> NoneResult]
    ELSE [cache |-> c, result |-> NoneResult]

set_cache(c, key, result, t) == Put(c, key, [result |-> result, ts |-> t])

NoEquipmentResult == Result({"recommendations", "explanation"}, <<>>, "not found")

\* the result built from the model's reply, lines 147-181
ResultOf(reply, eq_ids) ==
    CASE reply = "raises" -> Result({"recommendations", "explanation"}, <<>>, "error")
      [] reply = "text" -> Result({"recommendations", "explanation"}, <<>>, "text")
      [] reply = "empty_object" -> Result({}, <<>>, "")
      [] reply = "object" ->
            Result({"recommendations", "explanation"}, <<Head(eq_ids)>>, "object")

\* the state of the entry a call looks up
Entry(c, key, t) ==
    IF key \notin DOMAIN c THEN "absent"
    ELSE IF t - c[key].ts < CACHE_TTL THEN "fresh" ELSE "stale"

InitCache ==
    /\ cache = <<>>
    /\ llm_calls = 0
    /\ call = [query |-> "", key |-> get_cache_key("", <<>>), t |-> 0,
               had |-> "none", stored |-> NoneResult, asked |-> FALSE,
               result |-> NoneResult]

\* generate_recommendation(query, equipments), the model answering with reply
GenerateRecommendation(query, eq_ids, reply) ==
    LET key == get_cache_key(query, eq_ids)
        look == get_from_cache(cache, key, now)
        met == [query |-> query, key |-> key, t |-> now,
                had |-> Entry(cache, key, now),
                stored |-> IF key \in DOMAIN cache THEN cache[key].result
                           ELSE NoneResult]
        Returns(asked, result) ==
            call' = [query |-> met.query, key |-> met.key, t |-> met.t,
                     had |-> met.had, stored |-> met.stored,
                     asked |-> asked, result |-> result]
    IN  IF eq_ids = <<>>
        THEN /\ Returns(FALSE, NoEquipmentResult)
             /\ UNCHANGED <<cache, llm_calls>>
        ELSE IF Truthy(look.result)
        THEN /\ Returns(FALSE, look.result)
             /\ cache' = look.cache
             /\ UNCHANGED llm_calls
        ELSE /\ llm_calls < MaxCalls
             /\ llm_calls' = llm_calls + 1
             /\ Returns(TRUE, ResultOf(reply, eq_ids))
             /\ cache' = IF reply = "raises" THEN look.cache
                         ELSE set_cache(look.cache, key, ResultOf(reply, eq_ids), now)

(***************************************************************************)
(* Text.  A query is the sequence of its characters; a Hangul syllable is  *)
(* one character, written here by its romanisation ("geu" "reom" is the    *)
(* two-character word geureom, "then"); the syllables i, a and e are       *)
(* written "yi", "ah" and "eh", apart from the Latin letters.  A regular    *)
(* expression is a sequence of elements: a choice between literals, \s*    *)
(* or .+ .                                                                 *)
(***************************************************************************)
Lit(s) == [kind |-> "alt", alts |-> {s}]
Alt(S) == [kind |-> "alt", alts |-> S]
Ws == [kind |-> "ws", alts |-> {}]
Some == [kind |-> "some", alts |-> {}]

HasAt(q, i, s) ==
    /\ i + Len(s) - 1 <= Len(q)
    /\ \A k \in 1..Len(s) : q[i + k - 1] = s[k]

\* the positions at which a match of pat that starts at i can end
RECURSIVE Ends(_, _, _)
Ends(pat, q, i) ==
    IF pat = <<>> THEN {i}
    ELSE LET e == Head(pat)
             nexts ==
                 CASE e.kind = "alt" -> {i + Len(s) : s \in {a \in e.alts : HasAt(q, i, a)}}
                   [] e.kind = "ws" ->
                         {j \in i..(Len(q) + 1) : \A k \in i..(j - 1) : q[k] = " "}
                   [] e.kind = "some" -> (i + 1)..(Len(q) + 1)
         IN  UNION {Ends(Tail(pat), q, j) : j \in nexts}

\* re.search(pat, q) finds a match
search(pat, q) == \E i \in 1..(Len(q) + 1) : Ends(pat, q, i) # {}

\* kw in q
Contains(q, kw) == search(<<Lit(kw)>>, q)

\* str.lower(), on the letters the queries use
LowerChar(c) ==
    CASE c = "R" -> "r" [] c = "T" -> "t" [] c = "A" -> "a" [] c = "C" -> "c"
      [] OTHER -> c
lower(q) == [i \in 1..Len(q) |-> LowerChar(q[i])]

\* FOLLOWUP_PATTERNS, in the order of the list; a pattern with a top-level
\* alternation is the set of its branches
FOLLOWUP_PATTERNS == <<
    [alts |-> {<<Alt({<<"geu", "reom">>, <<"geu", "reo", "myeon">>}), Ws,
                 Alt({<<"yi">>, <<"jeo">>}), Ws, Lit(<<"jo", "geon">>)>>},
     intent_type |-> "condition_change"],
    [alts |-> {<<Alt({<<"dae", "sin">>, <<"mal", "go">>}), Ws, Some,
                 Alt({<<"eu", "ro">>, <<"ro">>}), Ws,
                 Alt({<<"ba", "kkwo">>, <<"byeon", "gyeong">>})>>},
     intent_type |-> "condition_replace"],
    [alts |-> {<<Some, Alt({<<"eu", "ro">>, <<"ro">>}), Ws,
                 Alt({<<"ba", "kkwo">>, <<"byeon", "gyeong">>})>>},
     intent_type |-> "condition_replace"],
    [alts |-> {<<Alt({<<"geu">>, <<"jeo">>, <<"yi">>}), Ws, Lit(<<"jang", "bi">>)>>},
     intent_type |-> "reference_previous"],
    [alts |-> {<<Alt({<<"cheot">>, <<"du">>, <<"se">>}), Ws, Lit(<<"beon", "jjae">>)>>},
     intent_type |-> "reference_previous"],
    [alts |-> {<<Lit(<<"maen">>), Ws,
                 Alt({<<"wi">>, <<"ah", "rae">>, <<"cheo", "eum">>,
                      <<"ma", "ji", "mak">>})>>},
     intent_type |-> "reference_previous"],
    [alts |-> {<<Alt({<<"geo", "gi", "eh">>, <<"chu", "ga", "ro">>, <<"deo">>}), Ws, Some,
                 Alt({<<"do">>, <<"man">>})>>},
     intent_type |-> "add_condition"],
    [alts |-> {<<Alt({<<"bi", "seut", "han">>, <<"yu", "sa", "han">>}), Ws,
                 Alt({<<"da", "reun">>, <<"jang", "bi">>})>>},
     intent_type |-> "similar_request"],
    [alts |-> {<<Alt({<<"deo">>, <<"ga", "jang">>}), Ws,
                 Alt({<<"ssan">>, <<"bi", "ssan">>, <<"jo", "eun">>,
                      <<"ppa", "reun">>})>>},
     intent_type |-> "comparison"],
    [alts |-> {<<Alt({<<"cha", "yi">>, <<"bi", "gyo">>})>>},
     intent_type |-> "comparison"],
    [alts |-> {<<Alt({<<"deo">>, <<"jom">>}), Ws, Alt({<<"neol">>, <<"jop">>}),
                 Alt({<<"ge">>, <<"hi">>, <<"hyeo">>})>>},
     intent_type |-> "adjust_range"]
>>

\* the demonstratives of the short-query rule: igeo, jeogeo, geugeo, igeon, geugeon
Demonstratives ==
    {<<"yi", "geo">>, <<"jeo", "geo">>, <<"geu", "geo">>, <<"yi", "geon">>,
     <<"geu", "geon">>}

NoIntent == "None"
Matching(q) ==
    {n \in 1..Len(FOLLOWUP_PATTERNS) : \E pat \in FOLLOWUP_PATTERNS[n].alts : search(pat, q)}

detect_followup_intent(query) ==
    LET hits == Matching(lower(query))
    IN  IF hits # {}
        THEN [is_followup |-> TRUE,
              intent_type |-> FOLLOWUP_PATTERNS[CHOOSE n \in hits : \A m \in hits : n <= m]
                                  .intent_type,
              confidence |-> 8]
        ELSE IF Len(query) < 20 /\ \E kw \in Demonstratives : Contains(query, kw)
        THEN [is_followup |-> TRUE, intent_type |-> "reference_previous", confidence |-> 6]
        ELSE [is_followup |-> FALSE, intent_type |-> NoIntent, confidence |-> 0]

(***************************************************************************)
(* query_parser.py, with the defaults it falls back to when                *)
(* data/filter_rules.json gives no rule.                                   *)
(***************************************************************************)
DEFAULT_HIGH_TEMP == 500
DEFAULT_LOW_TEMP == 200
VALID_WAFER_SIZES == {"2 inch", "3 inch", "4 inch", "6 inch", "8 inch", "12 inch"}
MM_TO_INCH ==
    { [mm |-> <<"5", "0">>, inch |-> "2 inch"], [mm |-> <<"7", "5">>, inch |-> "3 inch"],
      [mm |-> <<"1", "0", "0">>, inch |-> "4 inch"],
      [mm |-> <<"1", "5", "0">>, inch |-> "6 inch"],
      [mm |-> <<"2", "0", "0">>, inch |-> "8 inch"],
      [mm |-> <<"3", "0", "0">>, inch |-> "12 inch"] }
\* MATERIAL_MAPPING: key -> normalized name
MATERIAL_MAPPING == {}

Digits == <<"0", "1", "2", "3", "4", "5", "6", "7", "8", "9">>
IsDigit(c) == c \in Range(Digits)

\* int(digits)
RECURSIVE ToInt(_)
ToInt(ds) ==
    IF ds = <<>> THEN 0
    ELSE 10 * ToInt(SubSeq(ds, 1, Len(ds) - 1)) + (Pos(Digits, ds[Len(ds)]) - 1)

\* \d+ is greedy: a match of it that something other than a digit follows
\* covers a whole run of digits
RunStarts(q) == {i \in 1..Len(q) : IsDigit(q[i]) /\ (i = 1 \/ ~IsDigit(q[i - 1]))}
RunEnd(q, i) ==
    CHOOSE j \in (i + 1)..(Len(q) + 1) :
        /\ \A k \in i..(j - 1) : IsDigit(q[k])
        /\ j = Len(q) + 1 \/ ~IsDigit(q[j])
Run(q, i) == SubSeq(q, i, RunEnd(q, i) - 1)
Least(S) == CHOOSE n \in S : \A m \in S : n <= m

\* f"{match} inch"
InchName(ds) ==
    CASE ds = <<"2">> -> "2 inch" [] ds = <<"3">> -> "3 inch" [] ds = <<"4">> -> "4 inch"
      [] ds = <<"6">> -> "6 inch" [] ds = <<"8">> -> "8 inch"
      [] ds = <<"1", "2">> -> "12 inch" [] OTHER -> "other inch"

\* inchi, inch or the double quote
InchUnit == Alt({<<"in", "chi">>, <<"i", "n", "c", "h">>, <<"\"">>})

\* list(some_set): the order of the list is that of `order`, any order
list_of_set(S, order) == SelectSeq(order, LAMBDA x : x \in S)

extract_wafer_sizes(text, order) ==
    LET text_lower == lower(text)
        inch_matches == {Run(text_lower, i) :
                            i \in {r \in RunStarts(text_lower) :
                                     Ends(<<Ws, InchUnit>>, text_lower,
                                          RunEnd(text_lower, r)) # {}}}
        from_inch == {InchName(m) : m \in inch_matches} \cap VALID_WAFER_SIZES
        from_mm == {e.inch : e \in {x \in MM_TO_INCH :
                                      search(<<Lit(x.mm), Ws, Lit(<<"m", "m">>)>>,
                                             text_lower)}}
    IN  list_of_set(from_inch \cup from_mm, order)

\* do, the Celsius sign, the degree sign with C, the degree sign
TempUnit == Alt({<<"do">>, <<"celsius">>, <<"deg", "C">>, <<"deg">>})

\* the first match of (\d+) followed by tail, None without one
FirstNumber(q, tail) ==
    LET starts == {i \in RunStarts(q) : Ends(tail, q, RunEnd(q, i)) # {}}
    IN  IF starts = {} THEN None ELSE ToInt(Run(q, Least(starts)))

extract_temperature(text) ==
    LET Second(i) == {k \in Ends(<<Ws, Alt({<<"~">>, <<"fwtilde">>, <<"-">>}), Ws>>,
                                 text, RunEnd(text, i)) :
                         /\ k \in RunStarts(text)
                         /\ Ends(<<Ws, TempUnit>>, text, RunEnd(text, k)) # {}}
        ranges == {i \in RunStarts(text) : Second(i) # {}}
        min_match == FirstNumber(text, <<Ws, TempUnit, Ws,
                                         Alt({<<"yi", "sang">>, <<"cho", "gwa">>})>>)
        max_match == FirstNumber(text, <<Ws, TempUnit, Ws,
                                         Alt({<<"yi", "ha">>, <<"mi", "man">>,
                                              <<"kka", "ji">>})>>)
        tildes == {i \in RunStarts(text) :
                      /\ i > 1 /\ Ends(<<Alt({<<"~">>, <<"fwtilde">>})>>, text, i - 1) # {}
                      /\ Ends(<<Ws, TempUnit>>, text, RunEnd(text, i)) # {}}
        max2 == IF max_match # None THEN max_match
                ELSE IF tildes # {} THEN ToInt(Run(text, Least(tildes))) ELSE None
    IN  IF ranges # {}
        THEN [temp_min |-> ToInt(Run(text, Least(ranges))),
              temp_max |-> ToInt(Run(text, Least(Second(Least(ranges)))))]
        ELSE [temp_min |-> IF min_match = None /\ Contains(text, <<"go", "on">>)
                           THEN DEFAULT_HIGH_TEMP ELSE min_match,
              temp_max |-> IF max2 = None /\ Contains(text, <<"jeo", "on">>)
                           THEN DEFAULT_LOW_TEMP ELSE max2]

extract_materials(text, order) ==
    list_of_set({m.normalized : m \in {x \in MATERIAL_MAPPING :
                                          Contains(lower(text), x.key)}}, order)

\* parse_query: the fields of ParsedQuery that the conversation keeps
parse_query(query, order) ==
    [wafer_sizes |-> extract_wafer_sizes(query, order),
     temp_min |-> extract_temperature(query).temp_min,
     temp_max |-> extract_temperature(query).temp_max,
     materials |-> extract_materials(query, order)]

(***************************************************************************)
(* The condition merge (conversation.py) and its use by /chat (main.py).   *)
(* Conditions are the dict the handler builds: five keys, the list-valued  *)
(* ones holding lists, the temperature bounds a number or None.            *)
(***************************************************************************)
ConditionKeys == {"wafer_sizes", "materials", "temp_min", "temp_max", "categories"}
ListKeys == {"wafer_sizes", "materials", "categories"}

\* bool(value): an empty list, None and 0.0 are false
TruthyValue(key, value) == IF key \in ListKeys THEN value # <<>> ELSE value # None /\ value # 0

\* merged.update(d)
Update(merged, d) ==
    [k \in DOMAIN merged \cup DOMAIN d |-> IF k \in DOMAIN d THEN d[k] ELSE merged[k]]

\* for key, value in d.items(): if value: merged[key] = value
UpdateTruthy(merged, d) ==
    Update(merged, [k \in {x \in DOMAIN d : TruthyValue(x, d[x])} |-> d[k]])

\* a merge that takes the previous turn as its base whatever the detector said
merge_ignoring_detector(current_conditions, previous_conditions, followup_intent, order) ==
    UpdateTruthy(previous_conditions, current_conditions)

merge_with_previous_conditions(current_conditions, previous_conditions, followup_intent, order) ==
    LET intent_type == followup_intent.intent_type
        merged == previous_conditions
        Added(k) ==
            IF k \in DOMAIN merged /\ k \in ListKeys
            THEN list_of_set(Range(merged[k]) \cup Range(current_conditions[k]), order)
            ELSE current_conditions[k]
    IN  IF ~followup_intent.is_followup THEN current_conditions
        ELSE CASE intent_type = "condition_replace" -> Update(merged, current_conditions)
               [] intent_type = "add_condition" ->
                     Update(merged,
                            [k \in {x \in DOMAIN current_conditions :
                                      \/ x \in DOMAIN merged /\ x \in ListKeys
                                      \/ TruthyValue(x, current_conditions[x])}
                                |-> Added(k)])
               [] intent_type \in {"reference_previous", "similar_request"} ->
                     UpdateTruthy(merged, current_conditions)
               [] intent_type = "comparison" ->
                     IF "categories" \in DOMAIN current_conditions
                        /\ TruthyValue("categories", current_conditions["categories"])
                     THEN Update(merged, [k \in {"categories"} |-> current_conditions[k]])
                     ELSE merged
               [] intent_type = "condition_change" ->
                     UpdateTruthy(merged, current_conditions)
               [] OTHER -> UpdateTruthy(merged, current_conditions)

\* the conditions /chat builds from a ParsedQuery: mapped_categories is no
\* field of ParsedQuery, so categories is the getattr default
ConditionsOf(parsed) ==
    [wafer_sizes |-> parsed.wafer_sizes, materials |-> parsed.materials,
     temp_min |-> parsed.temp_min, temp_max |-> parsed.temp_max, categories |-> <<>>]

\* main.py lines 122-142: the merged values that are true replace the parsed ones
ApplyMerged(parsed, merged) ==
    [k \in DOMAIN parsed |->
        IF k \in DOMAIN merged /\ TruthyValue(k, merged[k]) THEN merged[k] ELSE parsed[k]]

\* the queries of the model
Q_6inchRTA == <<"6", "in", "chi", " ", "R", "T", "A", " ", "jang", "bi">>
Q_6inch400 == <<"6", "in", "chi", " ", "4", "0", "0", "do", " ", "yi", "sang", " ",
                "R", "T", "A", " ", "jang", "bi">>
Q_then8inch == <<"geu", "reom", " ", "8", "in", "chi", "neun", "?">>
Q_replace8inch == <<"8", "in", "chi", "ro", " ", "ba", "kkwo", "jwo">>
Q_change8inch == <<"geu", "reom", " ", "yi", " ", "jo", "geon", "eh", "seo", " ",
                   "8", "in", "chi">>
Q_that8inch == <<"geu", " ", "jang", "bi", " ", "8", "in", "chi">>
Q_add8inch == <<"chu", "ga", "ro", " ", "8", "in", "chi", "do">>
Q_change0deg == <<"geu", "reom", " ", "yi", " ", "jo", "geon", "eh", "seo", " ",
                  "0", "do", " ", "yi", "sang">>
ChatQueries == {Q_6inchRTA, Q_6inch400, Q_then8inch, Q_replace8inch, Q_change8inch,
                Q_that8inch, Q_add8inch, Q_change0deg}

\* the orders list(set(...)) can give the values that occur
Orders == { <<"2 inch", "3 inch", "4 inch", "6 inch", "8 inch", "12 inch", "Si">>,
            <<"Si", "12 inch", "8 inch", "6 inch", "4 inch", "3 inch", "2 inch">> }

InitFollowup == conv = <<>>

\* one /chat request of the session: lines 113-145 and 241-257
ChatTurn(query, order) ==
    LET followup_intent == detect_followup_intent(query)
        parsed == parse_query(query, order)
        merged == merge_with_previous_conditions(
                      ConditionsOf(parsed), conv[Len(conv)].extracted_conditions,
                      followup_intent, order)
        searched == IF followup_intent.is_followup /\ conv # <<>>
                    THEN ApplyMerged(parsed, merged) ELSE parsed
    IN  /\ Len(conv) < MaxConv
        /\ conv' = Append(conv, [query |-> query,
                                 followup_intent |-> followup_intent,
                                 extracted_conditions |-> ConditionsOf(searched)])

\* the inputs of the merge
Intents ==
    {[is_followup |-> FALSE, intent_type |-> NoIntent, confidence |-> 0]}
    \cup {[is_followup |-> TRUE, intent_type |-> t, confidence |-> 8] :
            t \in {FOLLOWUP_PATTERNS[n].intent_type : n \in 1..Len(FOLLOWUP_PATTERNS)}}
Conditions ==
    [wafer_sizes : {<<>>, <<"6 inch">>, <<"8 inch">>}, materials : {<<>>, <<"Si">>},
     temp_min : {None, 0, 400}, temp_max : {None, 500}, categories : {<<>>}]

\* no facet set
NoConditions ==
    [wafer_sizes |-> <<>>, materials |-> <<>>, temp_min |-> None, temp_max |-> None,
     categories |-> <<>>]
NoMerge == [done |-> FALSE, merged |-> NoConditions]
MergeInputs ==
    [current : Conditions, previous : Conditions, followup_intent : Intents, order : Orders]

Merge ==
    /\ ~merge_out.done
    /\ merge_out' = [done |-> TRUE,
                     merged |-> merge_with_previous_conditions(
                                    merge_in.current, merge_in.previous,
                                    merge_in.followup_intent, merge_in.order)]
    /\ UNCHANGED merge_in

(***************************************************************************)
(* The hard filters (filters.py).  A candidate is the dict of one search   *)
(* result; vector_score and bm25_score are tenths, score is hundredths; a   *)
(* key a dict lacks is None.                                               *)
(***************************************************************************)
\* hybrid_search, lines 177-188: the score of a candidate, weights 0.5 and 0.5
hybrid_score(vector_score, bm25_score) == vector_score * 5 + bm25_score * 5

\* a search result, rag.py lines 180-196 and hybrid_search.py lines 182-188
Equipment(id, sizes, mats, tmin, tmax, inst, cat, vs, bs, maint) ==
    [equipment_id |-> id, wafer_sizes |-> sizes, materials |-> mats, temp_min |-> tmin,
     temp_max |-> tmax, institution |-> inst, category |-> cat, vector_score |-> vs,
     bm25_score |-> bs, score |-> hybrid_score(vs, bs), is_maintenance |-> maint]

EqRTA == Equipment("e1", <<"6 inch", "8 inch">>, <<"Si">>, 200, 1200, "KION", "RTA", 10, 10, FALSE)
EqCVD == Equipment("e2", <<"8 inch">>, <<>>, None, None, "NNFC", "CVD", 10, 4, TRUE)
EqSEM == Equipment("e3", <<>>, <<"GaN">>, -10, 200, "KION Busan", "SEM", 7, 7, FALSE)
EqALD == Equipment("e4", <<"6 inch">>, <<"SI">>, 400, 1100, "KANC", "ALD", 6, 0, FALSE)
EqETCH == Equipment("e5", <<"8 inch">>, <<"Si">>, 20, 90, "NNFC", "ETCH", 8, 10, FALSE)
Candidates == {EqRTA, EqCVD, EqSEM, EqALD, EqETCH}

\* str.lower() on the material names (filters.py, line 113), the equipment
\* names and the categories of the model
str_lower(name) ==
    CASE name \in {"Si", "SI", "si"} -> "si"
      [] name \in {"GaN", "gan"} -> "gan"
      [] name \in {"RTA", "rta"} -> "rta"
      [] name \in {"CVD", "cvd"} -> "cvd"
      [] name \in {"ETCH", "etch"} -> "etch"
      [] name = "PECVD" -> "pecvd"
      [] name = "RTA System" -> "rta system"
      [] name = "ICP Etcher" -> "icp etcher"
      [] OTHER -> name

\* a in b for two strings, on the institution names of the model (filters.py,
\* line 170)
InString(a, b) == a = b \/ a = "" \/ <<a, b>> \in {<<"KION", "KION Busan">>}

\* filters.py, lines 11-15
FilterResult(passed, reason) == [passed |-> passed, reason |-> reason]

\* filters.py, lines 39-59
check_wafer_size(equipment, required_sizes) ==
    IF required_sizes = <<>> THEN FilterResult(TRUE, "")
    ELSE IF equipment.wafer_sizes = <<>> THEN FilterResult(FALSE, "no wafer size data")
    ELSE IF \E i \in 1..Len(required_sizes) :
                required_sizes[i] \in Range(equipment.wafer_sizes)
    THEN FilterResult(TRUE, "")
    ELSE FilterResult(FALSE, "size not supported")

\* a check_temperature that is content with either requested bound
check_temperature_either(equipment, temp_min, temp_max) ==
    IF temp_min = None /\ temp_max = None THEN FilterResult(TRUE, "")
    ELSE IF equipment.temp_min = None \/ equipment.temp_max = None
    THEN FilterResult(FALSE, "no temperature data")
    ELSE IF \/ temp_min # None /\ equipment.temp_max >= temp_min
            \/ temp_max # None /\ equipment.temp_min <= temp_max
    THEN FilterResult(TRUE, "")
    ELSE FilterResult(FALSE, "out of range")

\* a check_temperature that takes a candidate without temperature data as passing
check_temperature_lenient(equipment, temp_min, temp_max) ==
    IF temp_min = None /\ temp_max = None THEN FilterResult(TRUE, "")
    ELSE IF equipment.temp_min = None \/ equipment.temp_max = None
    THEN FilterResult(TRUE, "")
    ELSE IF temp_min # None /\ equipment.temp_max < temp_min
    THEN FilterResult(FALSE, "maximum too low")
    ELSE IF temp_max # None /\ equipment.temp_min > temp_max
    THEN FilterResult(FALSE, "minimum too high")
    ELSE FilterResult(TRUE, "")

\* filters.py, lines 62-96
check_temperature(equipment, temp_min, temp_max) ==
    IF temp_min = None /\ temp_max = None THEN FilterResult(TRUE, "")
    ELSE IF equipment.temp_min = None \/ equipment.temp_max = None
    THEN FilterResult(FALSE, "no temperature data")
    ELSE IF temp_min # None /\ equipment.temp_max < temp_min
    THEN FilterResult(FALSE, "maximum too low")
    ELSE IF temp_max # None /\ equipment.temp_min > temp_max
    THEN FilterResult(FALSE, "minimum too high")
    ELSE FilterResult(TRUE, "")

\* filters.py, lines 99-122: a candidate without material data passes
check_materials(equipment, required_materials) ==
    IF required_materials = <<>> THEN FilterResult(TRUE, "")
    ELSE IF equipment.materials = <<>> THEN FilterResult(TRUE, "")
    ELSE IF \E i \in 1..Len(required_materials) :
                str_lower(required_materials[i])
                    \in {str_lower(m) : m \in Range(equipment.materials)}
    THEN FilterResult(TRUE, "")
    ELSE FilterResult(FALSE, "material not supported")

\* a check_category that fails a candidate of another category
check_category_strict(equipment, required_categories, mapped_categories) ==
    IF required_categories = <<>> \/ equipment.category \in Range(required_categories)
    THEN FilterResult(TRUE, "")
    ELSE FilterResult(FALSE, "other category")

\* filters.py, lines 125-157: every path of check_category returns passed=True
check_category(equipment, required_categories, mapped_categories) == FilterResult(TRUE, "")

\* filters.py, lines 160-176
check_institution(equipment, required_institutions) ==
    IF required_institutions = <<>> THEN FilterResult(TRUE, "")
    ELSE IF \E i \in 1..Len(required_institutions) :
                InString(required_institutions[i], equipment.institution)
    THEN FilterResult(TRUE, "")
    ELSE FilterResult(FALSE, "other institution")

\* list.sort / sorted with a key: stable, Less the order of the keys
StableSort(seq, Less(_, _)) ==
    LET place(i) == 1 + Cardinality({j \in 1..Len(seq) :
                                        \/ Less(seq[j], seq[i])
                                        \/ ~Less(seq[i], seq[j]) /\ j < i})
    IN  [p \in 1..Len(seq) |-> seq[CHOOSE i \in 1..Len(seq) : place(i) = p]]

\* apply_hard_filters, lines 197-228: the five checks of one candidate in the
\* order of filter_results, and eq.copy() with filter_passed and
\* filter_reasons added
Annotated(eq, parsed_query) ==
    LET checks ==
            << [name |-> "wafer_size",
                result |-> check_wafer_size(eq, parsed_query.wafer_sizes)],
               [name |-> "temperature",
                result |-> check_temperature(eq, parsed_query.temp_min,
                                             parsed_query.temp_max)],
               [name |-> "materials",
                result |-> check_materials(eq, parsed_query.materials)],
               [name |-> "institution",
                result |-> check_institution(eq, parsed_query.institutions)],
               [name |-> "category",
                result |-> check_category(eq, parsed_query.categories, <<>>)] >>
        failed == SelectSeq(checks, LAMBDA c : ~c.result.passed)
    IN  Update(eq, [filter_passed |-> \A i \in 1..Len(checks) : checks[i].result.passed,
                    filter_reasons |-> [i \in 1..Len(failed) |->
                                           <<failed[i].name, failed[i].result.reason>>]])

\* x.get("score", default), filters.py lines 237, 319 and 323
ScoreOr(eq, default) == IF eq.score = None THEN default ELSE eq.score

\* filters.py, lines 179-239; PassedFirst is the sort key
\* (not filter_passed, -score) of line 237
apply_hard_filters(equipments, parsed_query, strict_mode) ==
    LET all == [i \in 1..Len(equipments) |-> Annotated(equipments[i], parsed_query)]
        results == IF strict_mode THEN SelectSeq(all, LAMBDA e : e.filter_passed) ELSE all
        PassedFirst(a, b) ==
            \/ a.filter_passed /\ ~b.filter_passed
            \/ a.filter_passed = b.filter_passed /\ ScoreOr(a, 0) > ScoreOr(b, 0)
    IN  StableSort(results, PassedFirst)

\* the inputs of the filters; a ParsedQuery, query_parser.py lines 14-25
FilterQuery(sizes, tmin, tmax, mats, insts, cats) ==
    [wafer_sizes |-> sizes, temp_min |-> tmin, temp_max |-> tmax, materials |-> mats,
     institutions |-> insts, categories |-> cats]
FilterQueries ==
    {FilterQuery(s, a, b, m, i, c) :
        s \in {<<>>, <<"8 inch">>, <<"12 inch", "6 inch">>}, a \in {None, 0, 400},
        b \in {None, 100}, m \in {<<>>, <<"si">>}, i \in {<<>>, <<"KION">>},
        c \in {<<>>, <<"RTA">>}}
EquipmentSeqs ==
    {<<>>} \cup {<<a>> : a \in Candidates} \cup {<<a, b>> : a, b \in Candidates}
        \cup {<<EqALD, EqCVD, EqRTA>>, <<EqCVD, EqSEM, EqETCH>>, <<EqETCH, EqRTA, EqSEM>>}

NoFilter == [done |-> FALSE, results |-> <<>>]

ApplyHardFilters ==
    /\ ~flt_out.done
    /\ flt_out' = [done |-> TRUE,
                   results |-> apply_hard_filters(flt_in.equipments, flt_in.parsed_query,
                                                  flt_in.strict_mode)]
    /\ UNCHANGED flt_in

(***************************************************************************)
(* rerank_with_filters (filters.py) over the policy tables (policy.py).    *)
(* match_score and combined_score are fractions num/den.                   *)
(***************************************************************************)
SettingsFile3 == << Policy("min_rag_score", "0.5", "float"),
                    Policy("maintenance_exclude", "false", "boolean") >>
FileStates == {"ok", "missing", "malformed"}

\* PolicySettings._parse_value on the values of the model; a float is hundredths
parse_value(value, value_type) ==
    CASE value_type = "boolean" -> value \in {"true", "True", "TRUE"}
      [] value_type = "integer" -> (CASE value = "3" -> 3 [] value = "5" -> 5)
      [] value_type = "float" -> (CASE value = "0" -> 0 [] value = "0.5" -> 50)
      [] OTHER -> value

\* PolicySettings.get, lines 117-120, once the table is refreshed
policy_get(data, key, default) ==
    IF key \in DOMAIN data THEN parse_value(data[key].value, data[key].type) ELSE default

\* InstitutionPriority.get_priority
get_priority(data, institution_id) ==
    IF institution_id \in DOMAIN data THEN data[institution_id].priority ELSE 999

\* a calculate_match_score that awards a requested facet whenever the check
\* of that facet passes
match_score_by_checks(equipment, parsed_query) ==
    LET max_score ==
            (IF parsed_query.wafer_sizes # <<>> THEN 5 ELSE 0)
            + (IF parsed_query.temp_min # None \/ parsed_query.temp_max # None
               THEN 5 ELSE 0)
            + (IF parsed_query.materials # <<>> THEN 5 ELSE 0)
            + (IF parsed_query.categories # <<>> THEN 3 ELSE 0)
            + (IF parsed_query.institutions # <<>> THEN 2 ELSE 0)
        score ==
            (IF /\ parsed_query.wafer_sizes # <<>>
                /\ check_wafer_size(equipment, parsed_query.wafer_sizes).passed
             THEN 5 ELSE 0)
            + (IF /\ parsed_query.temp_min # None \/ parsed_query.temp_max # None
                  /\ check_temperature(equipment, parsed_query.temp_min,
                                       parsed_query.temp_max).passed
               THEN 5 ELSE 0)
            + (IF /\ parsed_query.materials # <<>>
                  /\ check_materials(equipment, parsed_query.materials).passed
               THEN 5 ELSE 0)
            + (IF /\ parsed_query.categories # <<>>
                  /\ check_category(equipment, parsed_query.categories, <<>>).passed
               THEN 3 ELSE 0)
            + (IF /\ parsed_query.institutions # <<>>
                  /\ check_institution(equipment, parsed_query.institutions).passed
               THEN 2 ELSE 0)
    IN  IF max_score = 0 THEN [num |-> 1, den |-> 1]
        ELSE [num |-> score, den |-> max_score]

\* filters.py, lines 242-285: score / max_score, the weights in twentieths
calculate_match_score(equipment, parsed_query) ==
    LET max_score ==
            (IF parsed_query.wafer_sizes # <<>> THEN 5 ELSE 0)
            + (IF parsed_query.temp_min # None \/ parsed_query.temp_max # None
               THEN 5 ELSE 0)
            + (IF parsed_query.materials # <<>> THEN 5 ELSE 0)
            + (IF parsed_query.categories # <<>> THEN 3 ELSE 0)
            + (IF parsed_query.institutions # <<>> THEN 2 ELSE 0)
        score ==
            (IF /\ parsed_query.wafer_sizes # <<>>
                /\ Range(parsed_query.wafer_sizes) \cap Range(equipment.wafer_sizes) # {}
             THEN 5 ELSE 0)
            + (IF /\ parsed_query.temp_min # None \/ parsed_query.temp_max # None
                  /\ check_temperature(equipment, parsed_query.temp_min,
                                       parsed_query.temp_max).passed
               THEN 5 ELSE 0)
            + (IF /\ parsed_query.materials # <<>>
                  /\ {str_lower(m) : m \in Range(parsed_query.materials)}
                        \cap {str_lower(m) : m \in Range(equipment.materials)} # {}
               THEN 5 ELSE 0)
            + (IF /\ parsed_query.categories # <<>>
                  /\ equipment.category \in Range(parsed_query.categories)
               THEN 3 ELSE 0)
            + (IF /\ parsed_query.institutions # <<>>
                  /\ \E inst \in Range(parsed_query.institutions) :
                        InString(inst, equipment.institution)
               THEN 2 ELSE 0)
    IN  IF max_score = 0 THEN [num |-> 1, den |-> 1]
        ELSE [num |-> score, den |-> max_score]

\* a combined score that adds the filter weight instead of multiplying by it
combined_added(rag_score, match_score, filter_passed) ==
    [num |-> 4 * rag_score * match_score.den + 600 * match_score.num
                + (IF filter_passed THEN 1000 ELSE 300) * 10 * match_score.den,
     den |-> 10000 * match_score.den]

\* lines 327-330: (rag_score * 0.4 + match_score * 0.6) * filter_weight
combined_score(rag_score, match_score, filter_passed) ==
    [num |-> (4 * rag_score * match_score.den + 600 * match_score.num)
                * (IF filter_passed THEN 10 ELSE 3),
     den |-> 10000 * match_score.den]

\* an apply_priority that leaves the list in the order it came
apply_priority_unsorted(data, equipment_list, user_institution) ==
    [i \in 1..Len(equipment_list) |->
        Update(equipment_list[i],
               [_priority_score |->
                    IF user_institution # ""
                       /\ equipment_list[i].institution = user_institution
                    THEN 0 ELSE get_priority(data, equipment_list[i].institution)])]

\* InstitutionPriority.apply_priority, policy.py lines 48-82; ByPriority is
\* the sort key (_priority_score, -rag_score) of line 79
apply_priority(data, equipment_list, user_institution) ==
    LET ByPriority(a, b) ==
            \/ a._priority_score < b._priority_score
            \/ a._priority_score = b._priority_score /\ a.rag_score > b.rag_score
    IN  StableSort([i \in 1..Len(equipment_list) |->
                        Update(equipment_list[i],
                               [_priority_score |->
                                    IF user_institution # ""
                                       /\ equipment_list[i].institution = user_institution
                                    THEN 0
                                    ELSE get_priority(data, equipment_list[i].institution)])],
                   ByPriority)

\* rerank_with_filters from line 309 on; settings and priority are the tables
\* of the two policy objects, present tells whether they are not None
Ranked(equipments, parsed_query, user_institution, present, settings, priority) ==
    LET filtered == apply_hard_filters(equipments, parsed_query, FALSE)
        \* lines 314-315
        kept == IF present /\ policy_get(settings, "maintenance_exclude", FALSE) = TRUE
                THEN SelectSeq(filtered, LAMBDA e : ~e.is_maintenance)
                ELSE filtered
        \* lines 318-319
        survivors ==
            IF present
            THEN SelectSeq(kept, LAMBDA e : ScoreOr(e, 100)
                                              >= policy_get(settings, "min_rag_score", 0))
            ELSE kept
        \* lines 322-332: the three scores written into a candidate
        Scored(eq) ==
            Update(eq, [combined_score |->
                            combined_score(ScoreOr(eq, 50),
                                           calculate_match_score(eq, parsed_query),
                                           eq.filter_passed),
                        match_score |-> calculate_match_score(eq, parsed_query),
                        rag_score |-> ScoreOr(eq, 50)])
        scored == [i \in 1..Len(survivors) |-> Scored(survivors[i])]
        \* line 335: sort key -combined_score; the denominators of one call are equal
        ByCombined(a, b) == a.combined_score.num > b.combined_score.num
        sorted_list == StableSort(scored, ByCombined)
        \* lines 338-339
        prioritised == IF present THEN apply_priority(priority, sorted_list, user_institution)
                       ELSE sorted_list
        \* lines 342-344: filtered[:max_rec]
        max_rec == policy_get(settings, "max_recommendations", 10)
    IN  IF present /\ max_rec < Len(prioritised) THEN SubSeq(prioritised, 1, max_rec)
        ELSE prioritised

\* no call yet, of a request with these arguments
NoRerank(equipments, parsed_query, user_institution) ==
    [called |-> FALSE, raised |-> FALSE, present |-> FALSE, refreshed |-> FALSE,
     equipments |-> equipments, parsed_query |-> parsed_query,
     user_institution |-> user_institution, result |-> <<>>]

RerankQueries ==
    { FilterQuery(<<>>, None, None, <<>>, <<>>, <<>>),
      FilterQuery(<<"8 inch">>, 400, None, <<>>, <<>>, <<>>),
      FilterQuery(<<"12 inch", "6 inch">>, None, 100, <<"si">>, <<"KION">>, <<"RTA">>),
      FilterQuery(<<>>, 0, 100, <<"si">>, <<>>, <<"CVD">>) }
RerankSeqs ==
    { <<>>, <<EqCVD, EqSEM, EqETCH>>,
      <<EqSEM, EqALD, EqETCH, EqCVD, EqRTA>>, <<EqRTA, EqETCH, EqCVD, EqALD, EqSEM>> }
\* no user institution is "": line 68 takes None and "" alike
UserInstitutions == {"", "NNFC"}

\* a policy file is removed, damaged or restored
SetFileState(table, state) ==
    /\ loader.edits < MaxEdits
    /\ file_state[table] # state
    /\ file_state' = [file_state EXCEPT ![table] = state]
    /\ loader' = [loader EXCEPT !.edits = @ + 1]
    /\ UNCHANGED <<inst_file, inst_data, settings_file, settings_data, settings_last_load,
                   observed, complete, policy_manager, rerank>>

\* rerank_with_filters.  Lines 305-306 build the PolicyManager when there is
\* none, and get None when that raises; is_enabled on line 314 reloads the
\* settings when the TTL is over, and no one catches what _load raises
Rerank(equipments, parsed_query, user_institution) ==
    LET \* PolicyManager(), policy.py lines 292-295 with 24-32 and 94-102: a
        \* malformed file makes json.load raise, a missing one is skipped
        CanBuild == file_state.institution # "malformed" /\ file_state.settings # "malformed"
        LoadedInst == IF file_state.institution = "ok" THEN inst_load(<<>>, inst_file)
                      ELSE <<>>
        LoadedSettings == IF file_state.settings = "ok"
                          THEN settings_load(<<>>, settings_file) ELSE <<>>
        present == policy_manager = "built" \/ CanBuild
        priority == IF policy_manager = "built" THEN inst_data ELSE LoadedInst
        held == IF policy_manager = "built" THEN settings_data ELSE LoadedSettings
        last_load == IF policy_manager = "built" THEN settings_last_load ELSE now
        expired == present /\ now - last_load > policy_cache_ttl
        raises == expired /\ file_state.settings = "malformed"
        settings == IF expired /\ file_state.settings = "ok"
                    THEN settings_load(held, settings_file) ELSE held
    IN  /\ policy_manager' = IF present THEN "built" ELSE "none"
        /\ inst_data' = IF present THEN priority ELSE inst_data
        /\ settings_data' = IF present THEN settings ELSE settings_data
        /\ settings_last_load' = IF ~present THEN settings_last_load
                                 ELSE IF expired /\ ~raises THEN now ELSE last_load
        /\ rerank' = [called |-> TRUE, raised |-> raises, present |-> present,
                      refreshed |-> expired, equipments |-> equipments,
                      parsed_query |-> parsed_query, user_institution |-> user_institution,
                      result |-> IF raises THEN <<>>
                                 ELSE Ranked(equipments, parsed_query, user_institution,
                                             present, settings, priority)]
        /\ UNCHANGED <<inst_file, settings_file, loader, observed, complete, file_state>>

(***************************************************************************)
(* The tail of /chat (main.py, lines 176-269): rerank_with_filters, the    *)
(* intent filters (intent_parser.py), the choice of the candidates handed  *)
(* to the generative model and the mapping of its reply.                   *)
(***************************************************************************)
\* a.lower() in b.lower() for two strings, on the names and categories of the
\* model (intent_parser.py, lines 265, 275 and 278)
lower_in(a, b) ==
    \/ a = ""
    \/ str_lower(a) = str_lower(b)
    \/ <<str_lower(a), str_lower(b)>>
            \in {<<"rta", "rta system">>, <<"cvd", "pecvd">>, <<"etch", "icp etcher">>}

\* the candidates of a request, with the name a search result carries
\* (rag.py, line 182); e6 has the bounds add_equipments_batch stores for an
\* equipment without them (rag.py, lines 101-102)
PipeRTA == Update(EqRTA, [name |-> "RTA System"])
PipeCVD == Update(EqCVD, [name |-> "PECVD"])
PipeALD == Update(EqALD, [name |-> "ALD"])
PipeETCH == Update(EqETCH, [name |-> "ICP Etcher"])
PipeFURN ==
    Update(Equipment("e6", <<"6 inch">>, <<"Si">>, 0, 9999, "KION", "FURNACE", 5, 3, FALSE),
           [name |-> "Furnace"])

\* intent_parser.py, lines 19-54: the fields apply_intent_filters reads;
\* present is FALSE when /chat has no intent (main.py, lines 148-158)
ParsedIntent(present, ex_tmin, ex_tmax, ex_mats, ex_cats, or_conditions) ==
    [present |-> present, exclude_temp_min |-> ex_tmin, exclude_temp_max |-> ex_tmax,
     exclude_materials |-> ex_mats, exclude_categories |-> ex_cats,
     or_conditions |-> or_conditions]

\* seq[:n]
Take(seq, n) == SubSeq(seq, 1, Min(n, Len(seq)))

\* intent_parser.py, lines 218-289.  include is the flag of lines 238-267: a
\* bound that is None or 0 is false on lines 243 and 248; boost is the sum of
\* lines 272-279 in hundredths, one tenth for a clause's "process" found in
\* the name and one for its "category" found in the category
apply_intent_filters(results, intent) ==
    LET include(item) ==
            /\ ~(/\ intent.exclude_temp_min # None
                 /\ item.temp_min # None /\ item.temp_min # 0
                 /\ item.temp_min >= intent.exclude_temp_min)
            /\ ~(/\ intent.exclude_temp_max # None
                 /\ item.temp_max # None /\ item.temp_max # 0
                 /\ item.temp_max <= intent.exclude_temp_max)
            /\ ~\E excl \in Range(intent.exclude_materials) :
                    str_lower(excl) \in {str_lower(m) : m \in Range(item.materials)}
            /\ ~\E excl \in Range(intent.exclude_categories) :
                    lower_in(excl, item.category)
        oc == intent.or_conditions
        boost(item) ==
            10 * ( Cardinality({i \in 1..Len(oc) :
                        "process" \in DOMAIN oc[i] /\ lower_in(oc[i].process, item.name)})
                 + Cardinality({i \in 1..Len(oc) :
                        "category" \in DOMAIN oc[i]
                            /\ lower_in(oc[i].category, item.category)}) )
        kept == SelectSeq(results, include)
    IN  [i \in 1..Len(kept) |->
            IF boost(kept[i]) > 0
            THEN Update(kept[i], [score |-> Min(100, ScoreOr(kept[i], 50) + boost(kept[i]))])
            ELSE kept[i]]

\* a choice of the candidates for the model that hands on the passing ones only
passed_without_fallback(filtered_results, top_k) ==
    Take(SelectSeq(filtered_results, LAMBDA eq : eq.filter_passed), top_k)

\* main.py, lines 192-197: the passing candidates, or the first top_k of the
\* list when none passes
passed_results_of(filtered_results, top_k) ==
    LET passed == Take(SelectSeq(filtered_results, LAMBDA eq : eq.filter_passed), top_k)
    IN  IF passed = <<>> THEN Take(filtered_results, top_k) ELSE passed

\* one element of the "recommendations" the model wrote: a JSON object with an
\* equipment_id ("" when it has none, which is the id of no candidate), or a
\* JSON string
Rec(is_object, id) == [is_object |-> is_object, equipment_id |-> id]

\* what the model answers: it raises; text without JSON; {}; an object that
\* recommends the first candidate; one that recommends every id it knows of,
\* e9 being the id of no equipment; one with e9 only; one whose entry has no
\* equipment_id; one whose recommendations are id strings instead of objects
PipeReplies ==
    {"raises", "text", "empty_object", "first", "all_ids", "only_invented", "no_id",
     "id_strings"}

\* generate_recommendation without its cache, llm.py lines 101-105 and 127-181
reply_result(reply, equipments) ==
    IF equipments = <<>> THEN NoEquipmentResult
    ELSE CASE reply = "raises" -> Result({"recommendations", "explanation"}, <<>>, "error")
           [] reply = "text" -> Result({"recommendations", "explanation"}, <<>>, "text")
           [] reply = "empty_object" -> Result({}, <<>>, "")
           [] reply = "first" ->
                Result({"recommendations", "explanation"},
                       <<Rec(TRUE, equipments[1].equipment_id)>>, "object")
           [] reply = "all_ids" ->
                Result({"recommendations", "explanation"},
                       <<Rec(TRUE, "e9"), Rec(TRUE, "e6"), Rec(TRUE, "e5"), Rec(TRUE, "e4"),
                         Rec(TRUE, "e2"), Rec(TRUE, "e1")>>, "object")
           [] reply = "only_invented" ->
                Result({"recommendations", "explanation"}, <<Rec(TRUE, "e9")>>, "object")
           [] reply = "no_id" ->
                Result({"recommendations", "explanation"}, <<Rec(TRUE, "")>>, "object")
           [] reply = "id_strings" ->
                Result({"recommendations", "explanation"},
                       <<Rec(FALSE, equipments[1].equipment_id)>>, "object")

\* round(x, 2) of a fraction, in hundredths
round2(x) == (200 * x.num + x.den) \div (2 * x.den)

\* main.py, lines 211-222 and 228-238: the fields of a RecommendedEquipment
\* that come from the candidate
RecommendedEquipment(eq) ==
    [equipment_id |-> eq.equipment_id, name |-> eq.name, category |-> eq.category,
     score |-> round2(eq.combined_score)]

\* a mapping of the model's entries that does not look the id up
recommendations_unmatched(recs, passed_results) ==
    [i \in 1..Len(recs) |->
        LET matched == SelectSeq(passed_results,
                                 LAMBDA eq : eq.equipment_id = recs[i].equipment_id)
        IN  IF matched # <<>> THEN RecommendedEquipment(matched[1])
            ELSE [equipment_id |-> recs[i].equipment_id, name |-> "", category |-> "",
                  score |-> 50]]

\* main.py, lines 203-222: an entry whose id is the id of no candidate in
\* passed_results is skipped
recommendations_of(recs, passed_results) ==
    LET matched(rec) == SelectSeq(passed_results,
                                  LAMBDA eq : eq.equipment_id = rec.equipment_id)
        usable == SelectSeq(recs, LAMBDA rec : matched(rec) # <<>>)
    IN  [i \in 1..Len(usable) |-> RecommendedEquipment(matched(usable[i])[1])]

\* a request before its handler has run
NoResponse(search_results, parsed_query, intent, policy, reply, top_k) ==
    [done |-> FALSE, search_results |-> search_results, parsed_query |-> parsed_query,
     intent |-> intent, policy |-> policy, reply |-> reply, top_k |-> top_k,
     status |-> "none", reranked |-> <<>>, filtered_results |-> <<>>,
     passed_results |-> <<>>,
     recommendations |-> <<>>, has_session |-> FALSE, recommended_ids |-> <<>>]

\* /chat from line 176 on.  An element of the recommendations that is not an
\* object makes rec.get raise on line 205, and line 269 turns that into
\* HTTP 500; recommended_ids is what add_turn gets on line 251
ChatPipeline ==
    /\ ~pipe.done
    /\ \E reranked \in {Ranked(pipe.search_results, pipe.parsed_query, "",
                                pipe.policy.present, pipe.policy.settings,
                                pipe.policy.priority)} :
       \E filtered_results \in {IF pipe.intent.present
                                 THEN apply_intent_filters(reranked, pipe.intent)
                                 ELSE reranked} :
       \E passed_results \in {passed_results_of(filtered_results, pipe.top_k)} :
       \E llm_result \in {reply_result(pipe.reply, passed_results)} :
       \E mapped \in {recommendations_of(llm_result.recommendations, passed_results)} :
       \E recommendations \in
                {IF mapped = <<>> /\ passed_results # <<>>
                 THEN [i \in 1..Len(Take(passed_results, 3)) |->
                          RecommendedEquipment(passed_results[i])]
                 ELSE mapped} :
            pipe' =
                IF pipe.search_results = <<>>
                THEN [pipe EXCEPT !.done = TRUE, !.status = "ok"]
                ELSE IF \E i \in 1..Len(llm_result.recommendations) :
                            ~llm_result.recommendations[i].is_object
                THEN [pipe EXCEPT !.done = TRUE, !.status = "error",
                                  !.reranked = reranked,
                                  !.filtered_results = filtered_results,
                                  !.passed_results = passed_results]
                ELSE [pipe EXCEPT !.done = TRUE, !.status = "ok",
                                  !.reranked = reranked,
                                  !.filtered_results = filtered_results,
                                  !.passed_results = passed_results,
                                  !.recommendations = recommendations,
                                  !.has_session = TRUE,
                                  !.recommended_ids =
                                      [i \in 1..Len(recommendations) |->
                                          recommendations[i].equipment_id]]
    /\ UNCHANGED <<hyb, collection, hybrid_initialized, reloaded, lexical>>

PipeSeqs ==
    { <<>>, <<PipeRTA, PipeCVD, PipeETCH>>, <<PipeFURN, PipeALD>>,
      <<PipeETCH, PipeRTA, PipeFURN, PipeALD, PipeCVD>> }
PipeQueries ==
    { FilterQuery(<<>>, None, None, <<>>, <<>>, <<>>),
      FilterQuery(<<"12 inch">>, None, None, <<>>, <<>>, <<>>),
      FilterQuery(<<"8 inch">>, None, 100, <<"si">>, <<>>, <<"CVD">>) }
PipeIntents ==
    { ParsedIntent(FALSE, None, None, <<>>, <<>>, <<>>),
      ParsedIntent(TRUE, None, None, <<>>, <<>>, <<>>),
      ParsedIntent(TRUE, 400, None, <<>>, <<>>, <<>>),
      ParsedIntent(TRUE, 0, None, <<>>, <<>>, <<>>),
      ParsedIntent(TRUE, None, None, <<"si">>, <<"cvd">>, <<>>),
      ParsedIntent(TRUE, None, None, <<>>, <<>>,
                   <<[process |-> "RTA"], [process |-> "CVD"], [category |-> "CVD"],
                     [category |-> "ETCH"]>>),
      ParsedIntent(TRUE, None, None, <<>>, <<>>,
                   <<[process |-> "CVD", category |-> "CVD"]>>) }
\* the policy tables of a request: no PolicyManager, or one loaded from files
PipePolicies ==
    { [present |-> FALSE, settings |-> <<>>, priority |-> <<>>],
      [present |-> TRUE, settings |-> settings_load(<<>>, SettingsFile2),
       priority |-> inst_load(<<>>, InstFile1)],
      [present |-> TRUE, settings |-> settings_load(<<>>, SettingsFile3),
       priority |-> inst_load(<<>>, InstFile1)] }
\* request.top_k: the least value and the default (models.py, line 35)
ChatTopKs == {1, 5}

(***************************************************************************)
(* HybridSearcher.hybrid_search (hybrid_search.py, lines 123-195).  The    *)
(* scores of the two sides and the weights are tenths, hybrid_score is     *)
(* hundredths.                                                             *)
(***************************************************************************)
\* the keys of a dict in insertion order: each id where it first occurs
RECURSIVE FirstOccurrences(_)
FirstOccurrences(ids) ==
    IF ids = <<>> THEN <<>>
    ELSE LET front == FirstOccurrences(SubSeq(ids, 1, Len(ids) - 1))
         IN  IF ids[Len(ids)] \in Range(front) THEN front
             ELSE Append(front, ids[Len(ids)])

\* the value a loop of assignments leaves under a key, 0 when it never assigns
LastScore(items, key, id, field) ==
    LET at == {i \in 1..Len(items) : items[i][key] = id}
    IN  IF at = {} THEN 0
        ELSE items[CHOOSE i \in at : \A j \in at : j <= i][field]

\* a hybrid_search that forgets the candidates only the lexical side found
hybrid_search_vector_only(vector_results, bm25_results, top_k, vector_weight, bm25_weight) ==
    LET keys == FirstOccurrences([i \in 1..Len(vector_results) |->
                                    vector_results[i].equipment_id])
        entry(id) ==
            LET vs == LastScore(vector_results, "equipment_id", id, "score")
                bs == LastScore(bm25_results, "id", id, "bm25_score")
            IN  [equipment_id |-> id, vector_score |-> vs, bm25_score |-> bs,
                 hybrid_score |-> vs * vector_weight + bs * bm25_weight,
                 score |-> vs * vector_weight + bs * bm25_weight]
        ByHybrid(a, b) == a.hybrid_score > b.hybrid_score
    IN  Take(StableSort([i \in 1..Len(keys) |-> entry(keys[i])], ByHybrid), top_k)

\* lines 148-195, bm25_results being what search_bm25 returned on line 145:
\* combined is filled from the vector results, then from the BM25 results
\* (lines 155-169); every key gets its weighted sum (lines 173-190); the list
\* is sorted by hybrid_score, highest first, and cut (lines 193-195)
hybrid_search(vector_results, bm25_results, top_k, vector_weight, bm25_weight) ==
    LET keys == FirstOccurrences(
                    [i \in 1..Len(vector_results) |-> vector_results[i].equipment_id]
                    \o [i \in 1..Len(bm25_results) |-> bm25_results[i].id])
        entry(id) ==
            LET vs == LastScore(vector_results, "equipment_id", id, "score")
                bs == LastScore(bm25_results, "id", id, "bm25_score")
            IN  [equipment_id |-> id, vector_score |-> vs, bm25_score |-> bs,
                 hybrid_score |-> vs * vector_weight + bs * bm25_weight,
                 score |-> vs * vector_weight + bs * bm25_weight]
        ByHybrid(a, b) == a.hybrid_score > b.hybrid_score
    IN  Take(StableSort([i \in 1..Len(keys) |-> entry(keys[i])], ByHybrid), top_k)

\* a result of the vector search (rag.py, lines 180-196) and one of
\* search_bm25 (hybrid_search.py, lines 115-119)
VectorResult(id, score) == [equipment_id |-> id, score |-> score]
Bm25Result(id, score) == [id |-> id, bm25_score |-> score, metadata |-> "{}"]

VectorLists ==
    { <<>>, <<VectorResult("e1", 8)>>, <<VectorResult("e1", 8), VectorResult("e2", 6)>>,
      <<VectorResult("e2", 10), VectorResult("e3", 4), VectorResult("e1", 4)>> }
\* what the lexical side scores, best first, before search_bm25 cuts it
Bm25Lists ==
    { <<>>, <<Bm25Result("e1", 4)>>, <<Bm25Result("e3", 10), Bm25Result("e1", 4)>>,
      <<Bm25Result("e4", 10), Bm25Result("e2", 5), Bm25Result("e3", 2)>> }
HybridTopKs == {1, 2, 10}
\* vector_weight and bm25_weight: the defaults 0.5/0.5 and 0.7/0.3
Weights == {<<5, 5>>, <<7, 3>>}

\* no call yet, with these arguments
NoHybrid(vector_results, scored, top_k, weights) ==
    [done |-> FALSE, vector_results |-> vector_results, scored |-> scored,
     top_k |-> top_k, vector_weight |-> weights[1], bm25_weight |-> weights[2],
     bm25_results |-> <<>>, results |-> <<>>]

\* hybrid_search(query, vector_results, top_k, vector_weight, bm25_weight);
\* line 145 asks search_bm25 for top_k * 2 results
HybridSearch ==
    /\ ~hyb.done
    /\ \E bm25_results \in {Take(hyb.scored, hyb.top_k * 2)} :
            hyb' = [hyb EXCEPT !.done = TRUE, !.bm25_results = bm25_results,
                               !.results = hybrid_search(hyb.vector_results, bm25_results,
                                                         hyb.top_k, hyb.vector_weight,
                                                         hyb.bm25_weight)]
    /\ UNCHANGED <<pipe, collection, hybrid_initialized, reloaded, lexical>>

(***************************************************************************)
(* The corpus behind the lexical index (rag.py, data_loader.py).           *)
(* collection is the ChromaDB collection: its documents in stored order.   *)
(***************************************************************************)
\* collection.upsert: a document with a known id is replaced where it is, a
\* new one is appended
RECURSIVE upsert(_, _)
upsert(stored, documents) ==
    IF documents = <<>> THEN stored
    ELSE LET doc == Head(documents)
             next == IF doc.id \in Range(IdsOf(stored))
                     THEN [i \in 1..Len(stored) |->
                              IF stored[i].id = doc.id THEN doc ELSE stored[i]]
                     ELSE Append(stored, doc)
         IN  upsert(next, Tail(documents))

\* data_loader.SAMPLE_EQUIPMENTS
SAMPLE_EQUIPMENTS == CorpusB

\* POST /equipment/reload (main.py, lines 371-376): load_sample_data upserts
\* the sample equipment through add_equipments_batch (data_loader.py, lines
\* 338-343; rag.py, lines 81-116) and touches nothing else
ReloadEquipment ==
    /\ collection' = upsert(collection, SAMPLE_EQUIPMENTS)
    /\ reloaded' = TRUE
    /\ UNCHANGED <<bm25, doc_ids, doc_metadata, tokenized_docs, initialized, writer, reader,
                   installed, pipe, hyb, hybrid_initialized, lexical>>

\* the lexical side of RAGPipeline.hybrid_search (rag.py, lines 250-270).  The
\* index is built from the collection only while _hybrid_initialized is False
\* (lines 253-254), and initialize_hybrid_search leaves it False when the
\* collection is empty (lines 208-210); search_bm25 then runs on the index
\* there is (hybrid_search.py, lines 94-121 and 145)
RagHybridSearch(token, top_k) ==
    LET build == ~hybrid_initialized /\ collection # <<>>
        ids == IF build THEN IdsOf(collection) ELSE doc_ids
        tokens == IF build THEN TokensOf(collection) ELSE tokenized_docs
        meta == IF build THEN MetaOf(collection) ELSE doc_metadata
        scorer == IF build THEN BM25Okapi(tokens) ELSE bm25
        ready == build \/ initialized
    IN  /\ doc_ids' = ids /\ tokenized_docs' = tokens /\ doc_metadata' = meta
        /\ bm25' = scorer /\ initialized' = ready
        /\ hybrid_initialized' = (hybrid_initialized \/ build)
        /\ lexical' = [called |-> TRUE, token |-> token, top_k |-> top_k,
                       after_reload |-> reloaded,
                       results |-> IF ~ready \/ ~scorer.built THEN <<>>
                                   ELSE Results(SortDesc(Zip(ids, get_scores(scorer, token))),
                                                top_k * 2, meta,
                                                MaxScore(get_scores(scorer, token)))]
        /\ UNCHANGED <<writer, reader, installed, pipe, hyb, collection, reloaded>>

\* what the persistent collection may hold when the process starts
StoredCollections ==
    { <<>>, CorpusA, CorpusB, <<ExtraDoc>>, Append(CorpusA, ExtraDoc),
      <<Doc("e3", {"rta"}, "a3")>> }
LexicalTokens == {"rta", "cvd", "sem"}

NoLexical == [called |-> FALSE, token |-> "", top_k |-> 0, after_reload |-> FALSE,
              results |-> <<>>]

\* no request is being handled
IdlePipe ==
    NoResponse(<<>>, FilterQuery(<<>>, None, None, <<>>, <<>>, <<>>),
               ParsedIntent(FALSE, None, None, <<>>, <<>>, <<>>),
               [present |-> FALSE, settings |-> <<>>, priority |-> <<>>], "raises", 5)
InitApp ==
    /\ pipe = IdlePipe
    /\ hyb = NoHybrid(<<>>, <<>>, 10, <<5, 5>>)
    /\ collection = <<>> /\ hybrid_initialized = FALSE /\ reloaded = FALSE
    /\ lexical = NoLexical

(***************************************************************************)
(* Specifications.  Spec: the manager called directly.  SpecChat: the      *)
(* manager used by concurrent /chat handlers.                              *)
(***************************************************************************)
\* the PolicyManager built at startup from readable files
InitManager ==
    /\ policy_manager = "built"
    /\ file_state = [institution |-> "ok", settings |-> "ok"]
    /\ rerank = NoRerank(<<>>, FilterQuery(<<>>, None, None, <<>>, <<>>, <<>>), "")

InitIdle ==
    /\ InitSess /\ InitChat /\ InitIndex /\ InitPolicy /\ InitCache /\ InitFollowup
    /\ InitManager
Init ==
    /\ InitIdle
    /\ merge_in = [current |-> NoConditions, previous |-> NoConditions,
                   followup_intent |-> detect_followup_intent(<<>>), order |-> <<>>]
    /\ merge_out = NoMerge
    /\ flt_in = [equipments |-> <<>>, strict_mode |-> FALSE,
                 parsed_query |-> FilterQuery(<<>>, None, None, <<>>, <<>>, <<>>)]
    /\ flt_out = NoFilter
    /\ InitApp

Next ==
    \/ Tick /\ UNCHANGED <<chatVars, idxVars, polVars, llmVars, txtVars, fltVars, rnkVars, appVars>>
    \/ CreateSession /\ UNCHANGED <<chatVars, idxVars, polVars, llmVars, txtVars, fltVars, rnkVars, appVars>>
    \/ \E sid \in IdPool : GetSession(sid) /\ UNCHANGED <<chatVars, idxVars, polVars, llmVars, txtVars, fltVars, rnkVars, appVars>>
    \/ \E sid \in IdPool \cup {None} : GetOrCreateSession(sid) /\ UNCHANGED <<chatVars, idxVars, polVars, llmVars, txtVars, fltVars, rnkVars, appVars>>
    \/ \E sid \in IdPool : AddTurn(sid) /\ UNCHANGED <<chatVars, idxVars, polVars, llmVars, txtVars, fltVars, rnkVars, appVars>>

Spec == Init /\ [][Next]_vars

NextChat ==
    \/ Tick /\ UNCHANGED <<chatVars, idxVars, polVars, llmVars, txtVars, fltVars, rnkVars, appVars>>
    \/ \E r \in RequestIds, sid \in IdPool \cup {None} :
            ChatBegin(r, sid) /\ UNCHANGED <<idxVars, polVars, llmVars, txtVars, fltVars, rnkVars, appVars>>
    \/ \E r \in RequestIds, found \in BOOLEAN :
            ChatSearch(r, found) /\ UNCHANGED <<idxVars, polVars, llmVars, txtVars, fltVars, rnkVars, appVars>>
    \/ \E r \in RequestIds : ChatFinish(r) /\ UNCHANGED <<idxVars, polVars, llmVars, txtVars, fltVars, rnkVars, appVars>>

SpecChat == Init /\ [][NextChat]_vars

\* SpecIndex: one worker rebuilding the BM25 index while another searches it
NextIndex ==
    \/ \E c \in Corpora : InitializeReset(c) /\ UNCHANGED <<sessVars, chatVars, polVars, llmVars, txtVars, fltVars, rnkVars, appVars>>
    \/ InitializeAppend /\ UNCHANGED <<sessVars, chatVars, polVars, llmVars, txtVars, fltVars, rnkVars, appVars>>
    \/ InitializeBuild /\ UNCHANGED <<sessVars, chatVars, polVars, llmVars, txtVars, fltVars, rnkVars, appVars>>
    \/ AddDocumentAppend /\ UNCHANGED <<sessVars, chatVars, polVars, llmVars, txtVars, fltVars, rnkVars, appVars>>
    \/ AddDocumentRebuild /\ UNCHANGED <<sessVars, chatVars, polVars, llmVars, txtVars, fltVars, rnkVars, appVars>>
    \/ \E token \in QueryTokens, k \in TopKs :
            SearchScore(token, k) /\ UNCHANGED <<sessVars, chatVars, polVars, llmVars, txtVars, fltVars, rnkVars, appVars>>
    \/ SearchZip /\ UNCHANGED <<sessVars, chatVars, polVars, llmVars, txtVars, fltVars, rnkVars, appVars>>
    \/ SearchCollect /\ UNCHANGED <<sessVars, chatVars, polVars, llmVars, txtVars, fltVars, rnkVars, appVars>>

SpecIndex == Init /\ [][NextIndex]_vars

\* SpecPolicy: /policy/reload running while other requests read the tables
NextPolicy ==
    \/ Tick /\ UNCHANGED <<chatVars, idxVars, polVars, llmVars, txtVars, fltVars, rnkVars, appVars>>
    \/ \E f \in InstFiles : EditInstFile(f) /\ UNCHANGED <<sessVars, chatVars, idxVars, llmVars, txtVars, fltVars, rnkVars, appVars>>
    \/ \E f \in SettingsFiles :
            EditSettingsFile(f) /\ UNCHANGED <<sessVars, chatVars, idxVars, llmVars, txtVars, fltVars, rnkVars, appVars>>
    \/ InstReloadClear /\ UNCHANGED <<sessVars, chatVars, idxVars, llmVars, txtVars, fltVars, rnkVars, appVars>>
    \/ InstReloadPut /\ UNCHANGED <<sessVars, chatVars, idxVars, llmVars, txtVars, fltVars, rnkVars, appVars>>
    \/ SettingsReloadClear /\ UNCHANGED <<sessVars, chatVars, idxVars, llmVars, txtVars, fltVars, rnkVars, appVars>>
    \/ SettingsReloadPut /\ UNCHANGED <<sessVars, chatVars, idxVars, llmVars, txtVars, fltVars, rnkVars, appVars>>
    \/ SettingsReloadDone /\ UNCHANGED <<sessVars, chatVars, idxVars, llmVars, txtVars, fltVars, rnkVars, appVars>>
    \/ ReadInstitutions /\ UNCHANGED <<sessVars, chatVars, idxVars, llmVars, txtVars, fltVars, rnkVars, appVars>>
    \/ ReadSettings /\ UNCHANGED <<sessVars, chatVars, idxVars, llmVars, txtVars, fltVars, rnkVars, appVars>>

SpecPolicy == Init /\ [][NextPolicy]_vars

\* SpecCache: generate_recommendation called as time passes
NextCache ==
    \/ Tick /\ UNCHANGED <<chatVars, idxVars, polVars, llmVars, txtVars, fltVars, rnkVars, appVars>>
    \/ \E query \in Queries, eq_ids \in EquipmentLists, reply \in Replies :
            /\ GenerateRecommendation(query, eq_ids, reply)
            /\ UNCHANGED <<sessVars, chatVars, idxVars, polVars, txtVars, fltVars, rnkVars, appVars>>

SpecCache == Init /\ [][NextCache]_vars

\* SpecFollowup: the /chat requests of one session, one after the other
NextFollowup ==
    \E query \in ChatQueries, order \in Orders :
        /\ ChatTurn(query, order)
        /\ UNCHANGED <<sessVars, chatVars, idxVars, polVars, llmVars, merge_in, merge_out,
                     fltVars, rnkVars, appVars>>

SpecFollowup == Init /\ [][NextFollowup]_vars

\* SpecMerge: merge_with_previous_conditions applied to every input
NextMerge ==
    Merge /\ UNCHANGED <<sessVars, chatVars, idxVars, polVars, llmVars, conv, fltVars, rnkVars, appVars>>

InitMerge ==
    /\ InitIdle
    /\ merge_in \in MergeInputs
    /\ merge_out = NoMerge
    /\ flt_in = [equipments |-> <<>>, strict_mode |-> FALSE,
                 parsed_query |-> FilterQuery(<<>>, None, None, <<>>, <<>>, <<>>)]
    /\ flt_out = NoFilter
    /\ InitApp

SpecMerge == InitMerge /\ [][NextMerge]_vars

\* SpecFilter: apply_hard_filters applied to every input
NextFilter ==
    ApplyHardFilters /\ UNCHANGED <<sessVars, chatVars, idxVars, polVars, llmVars, txtVars, rnkVars, appVars>>

InitFilter ==
    /\ InitIdle
    /\ merge_in = [current |-> NoConditions, previous |-> NoConditions,
                   followup_intent |-> detect_followup_intent(<<>>), order |-> <<>>]
    /\ merge_out = NoMerge
    /\ flt_in \in [equipments : EquipmentSeqs, parsed_query : FilterQueries,
                    strict_mode : BOOLEAN]
    /\ flt_out = NoFilter
    /\ InitApp

SpecFilter == InitFilter /\ [][NextFilter]_vars

\* SpecRerank: one request sent to rerank_with_filters again and again as time
\* passes and the policy files change
NextRerank ==
    \/ Tick /\ UNCHANGED <<chatVars, idxVars, polVars, llmVars, txtVars, fltVars, rnkVars, appVars>>
    \/ \E f \in {SettingsFile1, SettingsFile3} :
            /\ EditSettingsFile(f)
            /\ UNCHANGED <<sessVars, chatVars, idxVars, llmVars, txtVars, fltVars, rnkVars, appVars>>
    \/ \E state \in FileStates :
            /\ SetFileState("settings", state)
            /\ UNCHANGED <<sessVars, chatVars, idxVars, llmVars, txtVars, fltVars, appVars>>
    \/ /\ Rerank(rerank.equipments, rerank.parsed_query, rerank.user_institution)
       /\ UNCHANGED <<sessVars, chatVars, idxVars, llmVars, txtVars, fltVars, appVars>>

\* before the first PolicyManager is built
InitRerank ==
    /\ InitSess /\ InitChat /\ InitIndex /\ InitCache /\ InitFollowup
    /\ merge_in = [current |-> NoConditions, previous |-> NoConditions,
                   followup_intent |-> detect_followup_intent(<<>>), order |-> <<>>]
    /\ merge_out = NoMerge
    /\ flt_in = [equipments |-> <<>>, strict_mode |-> FALSE,
                 parsed_query |-> FilterQuery(<<>>, None, None, <<>>, <<>>, <<>>)]
    /\ flt_out = NoFilter
    /\ InitApp
    /\ inst_file = InstFile1 /\ inst_data = <<>>
    /\ settings_file = SettingsFile1 /\ settings_data = <<>>
    /\ settings_last_load = 0
    /\ loader = [pc |-> "idle", entries |-> <<>>, edits |-> 0]
    /\ observed = [table |-> "none", data |-> <<>>, reloaded |-> FALSE,
                   file |-> <<>>, during |-> "idle"]
    /\ complete = [institution |-> {}, settings |-> {}]
    /\ policy_manager = "none"
    /\ file_state \in [institution : FileStates, settings : {"ok"}]
    /\ rerank \in {NoRerank(equipments, parsed_query, user_institution) :
                        equipments \in RerankSeqs, parsed_query \in RerankQueries,
                        user_institution \in UserInstitutions}

SpecRerank == InitRerank /\ [][NextRerank]_vars

\* /chat after retrieval, the request drawn at the start
NextPipeline ==
    ChatPipeline /\ UNCHANGED <<sessVars, chatVars, idxVars, polVars, llmVars, txtVars, fltVars, rnkVars>>

InitPipeline ==
    /\ InitIdle
    /\ merge_in = [current |-> NoConditions, previous |-> NoConditions,
                   followup_intent |-> detect_followup_intent(<<>>), order |-> <<>>]
    /\ merge_out = NoMerge
    /\ flt_in = [equipments |-> <<>>, strict_mode |-> FALSE,
                 parsed_query |-> FilterQuery(<<>>, None, None, <<>>, <<>>, <<>>)]
    /\ flt_out = NoFilter
    /\ pipe \in {NoResponse(s, q, i, p, r, k) :
                    s \in PipeSeqs, q \in PipeQueries, i \in PipeIntents,
                    p \in PipePolicies, r \in PipeReplies, k \in ChatTopKs}
    /\ hyb = NoHybrid(<<>>, <<>>, 10, <<5, 5>>)
    /\ collection = <<>> /\ hybrid_initialized = FALSE /\ reloaded = FALSE
    /\ lexical = NoLexical

SpecPipeline == InitPipeline /\ [][NextPipeline]_vars

\* SpecHybrid: hybrid_search applied to every input
NextHybrid ==
    HybridSearch /\ UNCHANGED <<sessVars, chatVars, idxVars, polVars, llmVars, txtVars, fltVars, rnkVars>>

InitHybrid ==
    /\ InitIdle
    /\ merge_in = [current |-> NoConditions, previous |-> NoConditions,
                   followup_intent |-> detect_followup_intent(<<>>), order |-> <<>>]
    /\ merge_out = NoMerge
    /\ flt_in = [equipments |-> <<>>, strict_mode |-> FALSE,
                 parsed_query |-> FilterQuery(<<>>, None, None, <<>>, <<>>, <<>>)]
    /\ flt_out = NoFilter
    /\ pipe = IdlePipe
    /\ hyb \in {NoHybrid(v, b, k, w) :
                    v \in VectorLists, b \in Bm25Lists, k \in HybridTopKs, w \in Weights}
    /\ collection = <<>> /\ hybrid_initialized = FALSE /\ reloaded = FALSE
    /\ lexical = NoLexical

SpecHybrid == InitHybrid /\ [][NextHybrid]_vars

\* SpecReload: searches before and after /equipment/reload, over a collection
\* that is empty or holds an earlier data set when the process starts
NextReload ==
    \/ ReloadEquipment /\ UNCHANGED <<sessVars, chatVars, polVars, llmVars, txtVars, fltVars, rnkVars>>
    \/ \E token \in LexicalTokens, top_k \in TopKs :
            /\ RagHybridSearch(token, top_k)
            /\ UNCHANGED <<sessVars, chatVars, polVars, llmVars, txtVars, fltVars, rnkVars>>

InitReload ==
    /\ InitIdle
    /\ merge_in = [current |-> NoConditions, previous |-> NoConditions,
                   followup_intent |-> detect_followup_intent(<<>>), order |-> <<>>]
    /\ merge_out = NoMerge
    /\ flt_in = [equipments |-> <<>>, strict_mode |-> FALSE,
                 parsed_query |-> FilterQuery(<<>>, None, None, <<>>, <<>>, <<>>)]
    /\ flt_out = NoFilter
    /\ pipe = IdlePipe
    /\ hyb = NoHybrid(<<>>, <<>>, 10, <<5, 5>>)
    /\ collection \in StoredCollections
    /\ hybrid_initialized = FALSE /\ reloaded = FALSE
    /\ lexical = NoLexical

SpecReload == InitReload /\ [][NextReload]_vars

(***************************************************************************)
(* Claims about the session store, checked under Spec.                     *)
(***************************************************************************)
Issued == 1..(nextId - 1)

C1_LookupOfExpired ==
    /\ (ret.op = "get_session" /\ ret.was = "expired") =>
            (ret.res = None /\ ret.sid \notin Range(sessions))
    /\ (ret.op = "get_session" /\ ret.res # None) =>
            (ret.was = "live" /\ ret.res = ret.sid)
C1_GoneStaysGone ==
    \A s \in Issued : s \notin Range(sessions) => s \notin Range(sessions')
\* C1: get_session on a session idle for more than session_ttl returns no
\* session and removes it from the map; an id that has left the map never
\* comes back, so later lookups return none and later cleanups do not see it.
C1_ExpiredSessionEvicted == []C1_LookupOfExpired /\ [][C1_GoneStaysGone]_vars
C1_Witness ==
    ret.op = "get_session" /\ ret.was = "expired" /\ Len(sessions) > 0

C2_EvictsLeastRecent ==
    \A r \in Range(sessions) \ Range(sessions') :
        ~Expired(heap[r], now) =>
            /\ ret'.op \in {"create_session", "get_or_create_session"}
            /\ \A s \in Range(sessions) \cap Range(sessions') :
                    Pos(recency, r) < Pos(recency, s)
\* C2: the map never holds more than max_sessions sessions, and a session
\* that leaves the map without being expired is removed by a creation and is
\* the least recently created-or-looked-up one.
C2_CapAndLru == [](Len(sessions) <= max_sessions) /\ [][C2_EvictsLeastRecent]_vars
C2_Witness ==
    /\ now = 0 /\ ret.op = "create_session"
    /\ Len(sessions) = max_sessions /\ nextId = max_sessions + 2
    /\ 1 \in Range(sessions)

\* C7: get_or_create_session with no id, an unknown id or the id of an
\* expired session does not raise and returns the session it has just
\* created, which is in the map and has no turns.
C7_NewSessionWhenNoneOrExpired ==
    (ret.op = "get_or_create_session" /\ ret.was # "live") =>
        /\ ~ret.raised
        /\ ret.res = nextId - 1
        /\ ret.res \in Range(sessions)
        /\ heap[ret.res].turns = <<>>
        /\ ret.was = "expired" => ret.res # ret.sid
C7_Witness ==
    /\ ret.op = "get_or_create_session" /\ ret.was = "expired"
    /\ turnsAdded > 0

C8_TurnsExtend ==
    \A s \in Range(sessions) \cap Range(sessions') :
        IsPrefix(heap[s].turns, heap'[s].turns)
\* C8: while a session stays in the map, every step leaves its previous turn
\* list as a prefix of its turn list.
C8_AppendOnly == [][C8_TurnsExtend]_vars
C8_Witness ==
    \E s \in Range(sessions) : Len(heap[s].turns) = 2 /\ ret.op = "get_session"

C6_FreshHitStaleGone ==
    /\ call.had = "fresh" => call.result = call.stored /\ ~call.asked
    /\ call.had = "stale" =>
            /\ call.asked
            /\ call.key \in DOMAIN cache => cache[call.key].ts = call.t

(***************************************************************************)
(* Claims about follow-up queries, checked under SpecFollowup, and about   *)
(* the merge, checked under SpecMerge.                                     *)
(***************************************************************************)
\* C9: in a session, "6-inchi RTA jangbi" followed by "geureom 8-inchi-neun?"
\* has the second turn detected as a follow-up of type condition_change or
\* reference_previous; and that second query, after any turn, is searched
\* with wafer sizes ["8 inch"] and the previous turn's other facets.
C9_FollowupKeepsFacets ==
    \A n \in 2..Len(conv) :
        conv[n].query = Q_then8inch =>
            /\ conv[n - 1].query = Q_6inchRTA =>
                    /\ conv[n].followup_intent.is_followup
                    /\ conv[n].followup_intent.intent_type
                           \in {"condition_change", "reference_previous"}
            /\ conv[n].extracted_conditions.wafer_sizes = <<"8 inch">>
            /\ \A k \in ConditionKeys \ {"wafer_sizes"} :
                   conv[n].extracted_conditions[k] = conv[n - 1].extracted_conditions[k]

\* a facet the query set: a list that is not empty, a bound that is not None
IsSet(key, value) == IF key \in ListKeys THEN value # <<>> ELSE value # None

\* C10: for condition_replace and condition_change the merged conditions
\* hold, for every facet, the current value where the current query set the
\* facet and the previous turn's value where it left the facet unset.
C10_MergeCurrentOverPrevious ==
    (/\ merge_out.done
     /\ merge_in.followup_intent.is_followup
     /\ merge_in.followup_intent.intent_type \in {"condition_replace", "condition_change"})
    => \A k \in ConditionKeys :
          merge_out.merged[k] = IF IsSet(k, merge_in.current[k])
                                THEN merge_in.current[k] ELSE merge_in.previous[k]

\* C11: for add_condition every list-valued facet of the merged conditions is
\* the set union of its previous and current values, and every temperature
\* bound is the current one when the current one is not None (0 included)
\* and the previous one otherwise.
C11_AddConditionUnion ==
    (/\ merge_out.done
     /\ merge_in.followup_intent.is_followup
     /\ merge_in.followup_intent.intent_type = "add_condition")
    => /\ \A k \in ListKeys :
             /\ Range(merge_out.merged[k])
                    = Range(merge_in.previous[k]) \cup Range(merge_in.current[k])
             /\ Len(merge_out.merged[k]) = Cardinality(Range(merge_out.merged[k]))
       /\ \A k \in ConditionKeys \ ListKeys :
             merge_out.merged[k] = IF merge_in.current[k] # None
                                   THEN merge_in.current[k] ELSE merge_in.previous[k]

\* C12: for reference_previous, merging conditions with themselves returns
\* them unchanged, and in general the merged conditions are the previous ones
\* with every facet the current query set replaced by the current value.
C12_ReferenceIdempotentOverride ==
    (/\ merge_out.done
     /\ merge_in.followup_intent.is_followup
     /\ merge_in.followup_intent.intent_type = "reference_previous")
    => /\ merge_in.current = merge_in.previous => merge_out.merged = merge_in.current
       /\ \A k \in ConditionKeys :
             merge_out.merged[k] = IF IsSet(k, merge_in.current[k])
                                   THEN merge_in.current[k] ELSE merge_in.previous[k]

\* C13: a turn that the detector does not report as a follow-up is merged to
\* exactly its own conditions whatever the previous turn holds, and /chat
\* stores and searches it with the conditions parsed from its query alone.
C13_NoFollowupCurrentOnly ==
    \A n \in 1..Len(conv) :
        ~conv[n].followup_intent.is_followup =>
            \A order \in Orders :
                LET current == ConditionsOf(parse_query(conv[n].query, order))
                IN  /\ conv[n].extracted_conditions = current
                    /\ n > 1 => merge_with_previous_conditions(
                                    current, conv[n - 1].extracted_conditions,
                                    conv[n].followup_intent, order) = current

\* a turn that is no follow-up comes after a turn with a temperature bound
C13_Witness ==
    /\ Len(conv) >= 2
    /\ ~conv[2].followup_intent.is_followup
    /\ conv[1].extracted_conditions.temp_min = 400
    /\ conv[2].extracted_conditions.temp_min = None
    /\ conv[2].extracted_conditions.wafer_sizes = <<"8 inch">>

\* C15: a read of the settings made more than the TTL after the last load
\* reloads them and a read within the TTL does not; after such a reload, with
\* no /policy/reload under way, the table read holds exactly the policies of
\* the file as it is then.
C15_RefreshGivesFileExactly ==
    (observed.table = "settings" /\ observed.reloaded /\ observed.during = "idle")
    => observed.data = settings_load(<<>>, observed.file)


(***************************************************************************)
(* Claims about the hard filters, checked under SpecFilter.                *)
(***************************************************************************)
\* the names of the checks a result failed
FailedChecks(result) == {result.filter_reasons[i][1] : i \in 1..Len(result.filter_reasons)}

\* a result without the fields apply_hard_filters added
Original(result) == [k \in DOMAIN EqRTA |-> result[k]]

\* how many results are marked as passing
PassCount(results) == Cardinality({i \in 1..Len(results) : results[i].filter_passed})

\* q2 is q1 with one hard constraint more
AddsOneConstraint(q1, q2) ==
    LET changed == {k \in DOMAIN q1 : q1[k] # q2[k]}
    IN  /\ Cardinality(changed) = 1
        /\ changed \subseteq {"wafer_sizes", "materials", "institutions", "temp_min", "temp_max"}
        /\ \A k \in changed \cap {"wafer_sizes", "materials", "institutions"} : q1[k] = <<>>
        /\ \A k \in changed \cap {"temp_min", "temp_max"} : q1[k] = None

\* C18: adding one hard constraint (a wafer, material or institution
\* constraint on a facet left unconstrained, or one more temperature bound)
\* never increases the number of candidates marked filter_passed.
C18_FilterMonotonic ==
    flt_out.done =>
        \A q2 \in FilterQueries :
            AddsOneConstraint(flt_in.parsed_query, q2) =>
                PassCount(apply_hard_filters(flt_in.equipments, q2, flt_in.strict_mode))
                    <= PassCount(flt_out.results)

C18_Witness ==
    /\ flt_out.done /\ ~flt_in.strict_mode
    /\ flt_in.parsed_query.temp_min = 400 /\ flt_in.parsed_query.temp_max = None
    /\ PassCount(flt_out.results) = 2
    /\ \E q2 \in FilterQueries :
            /\ AddsOneConstraint(flt_in.parsed_query, q2) /\ q2.temp_max = 100
            /\ PassCount(apply_hard_filters(flt_in.equipments, q2, FALSE)) = 0

\* C19: a candidate is marked filter_passed exactly when its wafer,
\* temperature, material and institution checks all pass, whatever its
\* category; without strict mode every input candidate is returned, the
\* passing ones ahead of the failing ones; with strict mode exactly the
\* passing candidates are returned.
C19_VerdictAndOrder ==
    flt_out.done =>
        LET q == flt_in.parsed_query
            results == flt_out.results
            Passes(eq) == /\ check_wafer_size(eq, q.wafer_sizes).passed
                          /\ check_temperature(eq, q.temp_min, q.temp_max).passed
                          /\ check_materials(eq, q.materials).passed
                          /\ check_institution(eq, q.institutions).passed
            Count(eq, seq) == Cardinality({i \in 1..Len(seq) : seq[i] = eq})
            originals == [i \in 1..Len(results) |-> Original(results[i])]
            expected == IF flt_in.strict_mode
                        THEN SelectSeq(flt_in.equipments, Passes)
                        ELSE flt_in.equipments
        IN  /\ \A i \in 1..Len(results) : results[i].filter_passed = Passes(originals[i])
            /\ Len(results) = Len(expected)
            /\ \A eq \in Candidates : Count(eq, originals) = Count(eq, expected)
            /\ \A i, j \in 1..Len(results) :
                    i < j /\ results[j].filter_passed => results[i].filter_passed

C19_Witness ==
    /\ flt_out.done /\ ~flt_in.strict_mode
    /\ flt_in.parsed_query.categories = <<"RTA">>
    /\ Len(flt_in.equipments) = 3 /\ ~Annotated(flt_in.equipments[1], flt_in.parsed_query).filter_passed
    /\ flt_out.results[1].filter_passed /\ flt_out.results[1].category # "RTA"
    /\ ~flt_out.results[3].filter_passed

\* C20: check_temperature passes when no bound is requested; otherwise it
\* fails a candidate without temperature data, fails when the requested
\* minimum is above the candidate's maximum or the requested maximum below
\* the candidate's minimum, and passes in every other case; a candidate
\* with range [200, 1200] passes min=400 and fails max=100.
C20_TemperatureCheck ==
    flt_out.done =>
        /\ \A i \in 1..Len(flt_in.equipments) :
              LET eq == flt_in.equipments[i]
                  lo == flt_in.parsed_query.temp_min
                  hi == flt_in.parsed_query.temp_max
                  expected == IF lo = None /\ hi = None THEN TRUE
                              ELSE IF eq.temp_min = None \/ eq.temp_max = None THEN FALSE
                              ELSE IF lo # None /\ lo > eq.temp_max THEN FALSE
                              ELSE IF hi # None /\ hi < eq.temp_min THEN FALSE
                              ELSE TRUE
              IN  check_temperature(eq, lo, hi).passed = expected
        /\ \A i \in 1..Len(flt_out.results) :
              "temperature" \in FailedChecks(flt_out.results[i])
                  <=> ~check_temperature(Original(flt_out.results[i]), flt_in.parsed_query.temp_min,
                                         flt_in.parsed_query.temp_max).passed
        /\ check_temperature(EqRTA, 400, None).passed
        /\ ~check_temperature(EqRTA, None, 100).passed

C20_Witness ==
    /\ flt_out.done /\ ~flt_in.strict_mode
    /\ flt_in.parsed_query.temp_min = None /\ flt_in.parsed_query.temp_max = 100
    /\ flt_in.equipments = <<EqRTA, EqCVD>>
    /\ \A i \in 1..2 : "temperature" \in FailedChecks(flt_out.results[i])

(***************************************************************************)
(* Claims about rerank_with_filters, checked under SpecRerank.             *)
(***************************************************************************)
\* C14: when the policy settings or the institution table cannot be loaded,
\* at construction or at a later TTL refresh inside rerank_with_filters, the
\* call raises no error and still returns a ranked list, with the policy
\* steps skipped.
C14_LoadFailureNotFatal ==
    rerank.called =>
        /\ ~rerank.raised
        /\ ~rerank.present => Len(rerank.result) = Len(rerank.equipments)

\* the priority rank of a candidate for the user of the last call
PriorityRank(eq) ==
    IF rerank.user_institution # "" /\ eq.institution = rerank.user_institution THEN 0
    ELSE IF eq.institution \in DOMAIN inst_data THEN inst_data[eq.institution].priority
    ELSE 999

\* the candidates of the last call that the maintenance and minimum-score steps keep
Kept ==
    {eq \in Range(rerank.equipments) :
        /\ ~(policy_get(settings_data, "maintenance_exclude", FALSE) = TRUE /\ eq.is_maintenance)
        /\ eq.score >= policy_get(settings_data, "min_rag_score", 0)}

\* C16: with the policy settings loaded, rerank_with_filters returns exactly
\* min(n, max_recommendations) candidates, n the number of candidates that
\* survive the maintenance-exclusion and minimum-score steps; the returned
\* list is in ascending priority rank (0 for the user's institution, else the
\* configured rank, else 999), and no omitted survivor has a better rank
\* than a returned candidate.
C16_CapAndPriorityOrder ==
    (rerank.called /\ ~rerank.raised /\ rerank.present) =>
        LET result == rerank.result
            n == Cardinality(Kept)
            max_rec == policy_get(settings_data, "max_recommendations", 10)
            returned == {Original(result[i]) : i \in 1..Len(result)}
        IN  /\ Len(result) = IF n < max_rec THEN n ELSE max_rec
            /\ Cardinality(returned) = Len(result) /\ returned \subseteq Kept
            /\ \A i, j \in 1..Len(result) :
                    i < j => PriorityRank(result[i]) <= PriorityRank(result[j])
            /\ \A i \in 1..Len(result) : result[i]._priority_score = PriorityRank(result[i])
            /\ \A eq \in Kept \ returned : \A i \in 1..Len(result) :
                    PriorityRank(eq) >= PriorityRank(result[i])

C16_Witness ==
    /\ rerank.called /\ ~rerank.raised /\ rerank.present
    /\ rerank.user_institution = "NNFC"
    /\ Cardinality(Kept) = 4 /\ Len(rerank.result) = 3
    /\ rerank.result[1].equipment_id = "e5" /\ rerank.result[1]._priority_score = 0
    /\ rerank.result[2]._priority_score = 1
    /\ rerank.result[3]._priority_score = 999

\* C17: for every candidate that rerank_with_filters returns, with semantic
\* and lexical scores in [0,1], match_score and combined_score lie in [0,1].
C17_ScoresInUnitInterval ==
    (rerank.called /\ ~rerank.raised) =>
        \A i \in 1..Len(rerank.result) :
            LET r == rerank.result[i]
            IN  (r.vector_score \in 0..10 /\ r.bm25_score \in 0..10) =>
                    /\ r.match_score.den > 0
                    /\ 0 <= r.match_score.num /\ r.match_score.num <= r.match_score.den
                    /\ r.combined_score.den > 0
                    /\ 0 <= r.combined_score.num
                    /\ r.combined_score.num <= r.combined_score.den

C17_Witness ==
    /\ rerank.called /\ ~rerank.raised
    /\ \E i, j \in 1..Len(rerank.result) :
            /\ rerank.result[i].combined_score.num = rerank.result[i].combined_score.den
            /\ ~rerank.result[j].filter_passed
            /\ 0 < rerank.result[j].match_score.num
            /\ rerank.result[j].match_score.num < rerank.result[j].match_score.den
            /\ 0 < rerank.result[j].combined_score.num

\* the facets a query requests, and the weight of each in twentieths
Requested(q) ==
    {f \in {"wafer", "temperature", "materials", "category", "institution"} :
        CASE f = "wafer" -> q.wafer_sizes # <<>>
          [] f = "temperature" -> q.temp_min # None \/ q.temp_max # None
          [] f = "materials" -> q.materials # <<>>
          [] f = "category" -> q.categories # <<>>
          [] f = "institution" -> q.institutions # <<>>}
FacetWeight == [wafer |-> 5, temperature |-> 5, materials |-> 5, category |-> 3,
                institution |-> 2]

\* the check of one facet passes for a candidate
CheckPasses(f, eq, q) ==
    CASE f = "wafer" -> check_wafer_size(eq, q.wafer_sizes).passed
      [] f = "temperature" -> check_temperature(eq, q.temp_min, q.temp_max).passed
      [] f = "materials" -> check_materials(eq, q.materials).passed
      [] f = "category" -> check_category(eq, q.categories, <<>>).passed
      [] f = "institution" -> check_institution(eq, q.institutions).passed

\* the candidate itself lists what the facet asks for
ListsRequested(f, eq, q) ==
    CASE f = "materials" ->
            \E m \in Range(q.materials), n \in Range(eq.materials) :
                str_lower(m) = str_lower(n)
      [] f = "category" -> eq.category \in Range(q.categories)
      [] OTHER -> CheckPasses(f, eq, q)

RECURSIVE WeightOf(_)
WeightOf(facets) ==
    IF facets = {} THEN 0
    ELSE LET f == CHOOSE x \in facets : TRUE
         IN  FacetWeight[f] + WeightOf(facets \ {f})

\* C21: calculate_match_score counts only the requested facets; each
\* requested facet (wafer 0.25, temperature 0.25, materials 0.25, category
\* 0.15, institution 0.10) contributes its full weight if the check of that
\* facet passes for the candidate and nothing otherwise; with no facet
\* requested the match score is 1.0.
C21_WeightIffCheckPasses ==
    (rerank.called /\ ~rerank.raised) =>
        \A i \in 1..Len(rerank.result) :
            LET r == rerank.result[i]
                q == rerank.parsed_query
            IN  IF Requested(q) = {} THEN r.match_score.num = r.match_score.den
                ELSE /\ r.match_score.den = WeightOf(Requested(q))
                     /\ r.match_score.num
                            = WeightOf({f \in Requested(q) : CheckPasses(f, r, q)})

\* C21 as the code has it: a requested facet contributes its full weight
\* only if its check passes, and nothing otherwise.  For wafer, temperature
\* and institution it contributes exactly when the check passes; materials
\* contribute only when the candidate lists a requested material (a candidate
\* without material data passes the check and earns nothing); the category
\* contributes only when the candidate's category is a requested one (its
\* check always passes).
C21_WeightOnlyIfCheckPasses ==
    (rerank.called /\ ~rerank.raised) =>
        \A i \in 1..Len(rerank.result) :
            LET r == rerank.result[i]
                q == rerank.parsed_query
                awarded == {f \in Requested(q) : ListsRequested(f, r, q)}
            IN  /\ \A f \in awarded : CheckPasses(f, r, q)
                /\ IF Requested(q) = {} THEN r.match_score.num = r.match_score.den
                   ELSE /\ r.match_score.den = WeightOf(Requested(q))
                        /\ r.match_score.num = WeightOf(awarded)

C21_Witness ==
    /\ rerank.called /\ ~rerank.raised
    /\ \E i, j \in 1..Len(rerank.result) :
            LET r == rerank.result[i]
                q == rerank.parsed_query
            IN  /\ r.materials = <<>> /\ q.materials # <<>>
                /\ CheckPasses("materials", r, q)
                /\ r.match_score.num = 3 /\ r.match_score.den = 13
                /\ rerank.result[j].match_score.num = 10

\* C27: in the list rerank_with_filters returns, among the candidates of one
\* priority rank a candidate with a higher combined_score never comes after
\* one with a lower combined_score.
C27_CombinedOrderWithinRank ==
    (rerank.called /\ ~rerank.raised) =>
        \A i, j \in 1..Len(rerank.result) :
            (i < j /\ (rerank.present =>
                        rerank.result[i]._priority_score = rerank.result[j]._priority_score))
                => /\ rerank.result[i].combined_score.den = rerank.result[j].combined_score.den
                   /\ rerank.result[i].combined_score.num >= rerank.result[j].combined_score.num

\* a candidate's lowest temperature is known and at least T
TempMinAtLeast(eq, T) == eq.temp_min # None /\ eq.temp_min >= T

\* the candidate of the request with this id
CandidateOf(id) == CHOOSE eq \in Range(pipe.search_results) : eq.equipment_id = id

\* C23: when the intent of a request carries exclude_temp_min = T, no
\* candidate whose temp_min is at least T is in the output of
\* apply_intent_filters or in the recommendations of the chat response, the
\* fallback for "no candidate passed" included.
C23_ExcludedTempNeverReturned ==
    (pipe.done /\ pipe.intent.present /\ pipe.intent.exclude_temp_min # None) =>
        /\ \A i \in 1..Len(pipe.filtered_results) :
                ~TempMinAtLeast(pipe.filtered_results[i], pipe.intent.exclude_temp_min)
        /\ \A i \in 1..Len(pipe.recommendations) :
                ~TempMinAtLeast(CandidateOf(pipe.recommendations[i].equipment_id),
                                pipe.intent.exclude_temp_min)

\* a candidate matches an excluded condition of the intent
MatchesExcluded(eq, intent) ==
    \/ intent.exclude_temp_min # None /\ TempMinAtLeast(eq, intent.exclude_temp_min)
    \/ intent.exclude_temp_max # None /\ eq.temp_max # None
            /\ eq.temp_max <= intent.exclude_temp_max
    \/ \E x \in Range(intent.exclude_materials), m \in Range(eq.materials) :
            str_lower(x) = str_lower(m)
    \/ \E x \in Range(intent.exclude_categories) : lower_in(x, eq.category)

\* the OR-clauses of the intent that a candidate matches by name or category
MatchedClauses(eq, intent) ==
    {i \in 1..Len(intent.or_conditions) :
        LET cond == intent.or_conditions[i]
        IN  \/ "process" \in DOMAIN cond /\ lower_in(cond.process, eq.name)
            \/ "category" \in DOMAIN cond /\ lower_in(cond.category, eq.category)}

\* C24: apply_intent_filters keeps every candidate that matches no excluded
\* condition, however many OR-clauses it matches; it raises the score of a
\* candidate by 0.1 for each OR-clause matched against its name or category,
\* never above 1.0, and leaves the score of a candidate that matches no
\* OR-clause unchanged.
C24_OrClauseBoost ==
    (pipe.done /\ pipe.intent.present) =>
        /\ \A i \in 1..Len(pipe.reranked) :
                ~MatchesExcluded(pipe.reranked[i], pipe.intent)
                    => \E j \in 1..Len(pipe.filtered_results) :
                            pipe.filtered_results[j].equipment_id
                                = pipe.reranked[i].equipment_id
        /\ \A j \in 1..Len(pipe.filtered_results) :
                LET out == pipe.filtered_results[j]
                    in == CHOOSE eq \in Range(pipe.reranked) :
                                eq.equipment_id = out.equipment_id
                    n == Cardinality(MatchedClauses(in, pipe.intent))
                IN  /\ out.score = Min(100, in.score + 10 * n)
                    /\ n = 0 => out = in

\* every candidate of the request fails the hard filters
AllFail == \A eq \in Range(pipe.search_results) : ~Annotated(eq, pipe.parsed_query).filter_passed

\* C25: whenever retrieval returned at least one candidate and every
\* candidate fails the hard filters, the chat pipeline falls back to the
\* best-ranked candidates whatever the filters said (at most top_k, still
\* marked as failing) instead of handing on an empty list, so the response is
\* not empty.
C25_FallbackNeverEmpty ==
    (pipe.done /\ pipe.search_results # <<>> /\ AllFail) =>
        /\ pipe.passed_results # <<>>
        /\ Len(pipe.passed_results) <= pipe.top_k
        /\ \A i \in 1..Len(pipe.passed_results) : ~pipe.passed_results[i].filter_passed
        /\ pipe.status = "ok" => pipe.recommendations # <<>>

\* C25 as the code has it: when no candidate left by rerank_with_filters and
\* the intent filters passes the hard filters, the first top_k of that list
\* are handed on, still marked as failing, and a response that is returned
\* is not empty as long as that list is not: a request whose candidates are
\* all dropped by the policy steps or by the excluded conditions of the
\* intent hands on an empty list and is answered without recommendations.
C25_FallbackToSurvivors ==
    (pipe.done /\ pipe.search_results # <<>>
        /\ \A i \in 1..Len(pipe.filtered_results) : ~pipe.filtered_results[i].filter_passed)
    =>  /\ pipe.passed_results = Take(pipe.filtered_results, pipe.top_k)
        /\ \A i \in 1..Len(pipe.passed_results) : ~pipe.passed_results[i].filter_passed
        /\ pipe.status = "ok" => (pipe.recommendations = <<>> <=> pipe.filtered_results = <<>>)

C25_Witness ==
    /\ pipe.done /\ pipe.status = "ok" /\ AllFail
    /\ Len(pipe.filtered_results) = 5 /\ pipe.top_k = 1
    /\ Len(pipe.passed_results) = 1 /\ ~pipe.passed_results[1].filter_passed
    /\ Len(pipe.recommendations) = 1

\* the model's reply is a failure of the call, malformed, or without a usable
\* recommendation
Unusable == {"raises", "text", "empty_object", "only_invented", "no_id", "id_strings"}

\* C26: when the generative call raises, or returns output that is malformed
\* or holds no usable recommendation, the chat request still completes
\* successfully: the response carries recommendations built from the top (at
\* most 3) filtered candidates and no error reaches the caller.
C26_GenerationFailureAbsorbed ==
    (pipe.done /\ pipe.search_results # <<>> /\ pipe.reply \in Unusable) =>
        /\ pipe.status = "ok"
        /\ pipe.recommendations
                = [i \in 1..Len(Take(pipe.passed_results, 3)) |->
                        RecommendedEquipment(pipe.passed_results[i])]

\* C30: every equipment id in the recommendations of a chat response is the
\* id of a candidate in the list handed to the generative model for that
\* request, with the name, the category and the score of that candidate; an
\* id the model invented is dropped and reaches neither the response nor the
\* stored turn.
C30_RecommendationsFromCandidates ==
    (pipe.done /\ pipe.status = "ok") =>
        /\ \A i \in 1..Len(pipe.recommendations) :
                LET rec == pipe.recommendations[i]
                IN  \E j \in 1..Len(pipe.passed_results) :
                        LET eq == pipe.passed_results[j]
                            d == rec.score * eq.combined_score.den
                                    - 100 * eq.combined_score.num
                        IN  /\ rec.equipment_id = eq.equipment_id
                            /\ rec.name = eq.name /\ rec.category = eq.category
                            /\ 2 * d <= eq.combined_score.den
                            /\ -2 * d <= eq.combined_score.den
        /\ pipe.recommended_ids
                = [i \in 1..Len(pipe.recommendations) |-> pipe.recommendations[i].equipment_id]
        /\ Range(pipe.recommended_ids)
                \subseteq {pipe.passed_results[j].equipment_id :
                                j \in 1..Len(pipe.passed_results)}

C30_Witness ==
    /\ pipe.done /\ pipe.status = "ok" /\ pipe.reply = "all_ids"
    /\ Len(pipe.filtered_results) = 5 /\ Len(pipe.passed_results) = 1
    /\ pipe.recommended_ids = <<"e5">>
    /\ pipe.recommendations[1].name = "ICP Etcher"
(***************************************************************************)
(* C22: the fusion of the two sides                                        *)
(***************************************************************************)
\* the identifiers either side found, and the score a side gave to one
FoundIds ==
    {hyb.vector_results[i].equipment_id : i \in 1..Len(hyb.vector_results)}
        \cup {hyb.bm25_results[i].id : i \in 1..Len(hyb.bm25_results)}
SemanticScore(id) ==
    IF \E i \in 1..Len(hyb.vector_results) : hyb.vector_results[i].equipment_id = id
    THEN (CHOOSE r \in Range(hyb.vector_results) : r.equipment_id = id).score
    ELSE 0
LexicalScore(id) ==
    IF \E i \in 1..Len(hyb.bm25_results) : hyb.bm25_results[i].id = id
    THEN (CHOOSE r \in Range(hyb.bm25_results) : r.id = id).bm25_score
    ELSE 0
FusedScore(id) == hyb.vector_weight * SemanticScore(id) + hyb.bm25_weight * LexicalScore(id)

C28_LexicalSearchUsesReloadedCorpus ==
    (lexical.called /\ lexical.after_reload) =>
        lexical.results = SearchOf(collection, lexical.token, lexical.top_k * 2)

(***************************************************************************)
(* C29: the turn a /chat response speaks of                                *)
(***************************************************************************)
\* C29: every chat request that returns a response carrying a session id has
\* appended exactly one turn to that session in the session map, and the
\* turn_count it reports is the number of turns stored for that session, also
\* when the TTL elapses or other requests evict the session meanwhile.
C29_TurnStoredAndCounted ==
    [][\A r \in RequestIds :
            (reqs[r].pc = "llm" /\ reqs'[r].pc = "done") =>
                LET sid == reqs'[r].sid
                IN  /\ sid \in Range(sessions) /\ sid \in Range(sessions')
                    /\ heap'[sid].turns = Append(heap[sid].turns, r)
                    /\ reqs'[r].turn_count = Len(heap'[sid].turns)]_vars

====
